---- MODULE Spec2Model ----
(***************************************************************************)
(* Model of the fixture harness of design-parity-checker                   *)
(* (test_assets/run_fixture_checks.py): output extraction, assertion       *)
(* evaluation and the case/viewport loop of main().                        *)
(*                                                                         *)
(* Conventions                                                             *)
(*  - A JSON value is a record tagged by t: "null", "num", "str", "arr",   *)
(*    "obj".  Python's None is the JSON null (json.loads("null") is None). *)
(*  - Real numbers (similarity, scores, thresholds) are integers in units  *)
(*    of 1/10000, so 0.995 is 9950 and 1.0 is 10000.                       *)
(*  - A stream (stdout / stderr text) is a sequence of lexical tokens:     *)
(*    "{" "}" "[" "]", a member key with its colon, a scalar, whitespace,  *)
(*    or a run of log text that is no JSON token.  The comma separating    *)
(*    two members or elements is folded into the token that follows it.    *)
(***************************************************************************)
EXTENDS Integers, Sequences, FiniteSets, TLC

VARIABLES
    pc,          \* position of the running program
    stream,      \* SpecExtract: the text handed to extract_json
    extracted,   \* SpecExtract: what extract_json returned
    args,        \* main: the parsed command line
    dirs,        \* the fixtures directory: dir name -> [meta, src_ok]
    cases,       \* main: the loaded (and limited) case list
    idx,         \* main: position in cases (enumerate, from 1)
    viewports,   \* main: the viewport list of the current case
    vpi,         \* main: position in viewports
    failures,    \* main: accumulated failure messages
    errors,      \* main: error counter
    report,      \* the lines written to the report file
    inflight,    \* comparator processes spawned and not yet awaited
    invocations, \* every comparator command line issued so far
    exit_status, \* process exit status, meaningful when pc = "done"
    summary_out, \* main: the lines of the console summary printed so far
    subject,     \* SpecAssert: the arguments handed to check_assertions
    verdict,     \* SpecAssert: the failure list check_assertions returned
    call,        \* SpecGenerate: the arguments of one generator call
    derived,     \* SpecGenerate: what the derivation functions returned
    gen_cases,   \* SpecGenerate: the `cases` list add_case appends to
    out_dir,     \* SpecPersist: the output directory: case_id -> file -> content
    widx,        \* SpecPersist: position of the loop that writes the cases
    runs,        \* SpecPersist: generator runs finished so far
    first_out,   \* SpecPersist: the output directory as the first run left it
    proc,        \* SpecCompare: the finished comparator process
    outcome      \* SpecCompare: what its evaluation gave

harness_vars ==
    <<args, dirs, cases, idx, viewports, vpi, failures, errors, report,
      inflight, invocations, exit_status, summary_out>>

assert_vars == <<subject, verdict>>

gen_vars == <<call, derived, gen_cases, out_dir, widx, runs, first_out>>

compare_vars == <<proc, outcome>>

vars == <<pc, stream, extracted, harness_vars, assert_vars, gen_vars, compare_vars>>

-----------------------------------------------------------------------------
(* JSON values *)

JNull == [t |-> "null"]
JNum(n) == [t |-> "num", n |-> n]
JStr(s) == [t |-> "str", s |-> s]
JArr(a) == [t |-> "arr", a |-> a]
JObj(o) == [t |-> "obj", o |-> o]

EmptyMap == [k \in {} |-> JNull]

\* the variables of a specification that does not run them
HarnessIdle ==
    /\ args = [strict |-> FALSE, use_html |-> FALSE, limit |-> JNull, threshold |-> JNull]
    /\ dirs = <<>>
    /\ cases = <<>>
    /\ idx = 0
    /\ viewports = <<>>
    /\ vpi = 0
    /\ failures = <<>>
    /\ errors = 0
    /\ report = <<>>
    /\ inflight = <<>>
    /\ invocations = <<>>
    /\ exit_status = 0
    /\ summary_out = <<>>

AssertIdle ==
    /\ subject = JNull
    /\ verdict = <<>>

PersistIdle ==
    /\ out_dir = <<>>
    /\ widx = 0
    /\ runs = 0
    /\ first_out = <<>>

GenIdle ==
    /\ call = JNull
    /\ derived = JNull
    /\ gen_cases = <<>>
    /\ PersistIdle

CompareIdle ==
    /\ proc = JNull
    /\ outcome = JNull

\* Python truthiness of a parsed JSON value: `not v`
Falsy(v) ==
    \/ v.t = "null"
    \/ v.t = "num" /\ v.n = 0
    \/ v.t = "str" /\ v.s = ""
    \/ v.t = "arr" /\ v.a = <<>>
    \/ v.t = "obj" /\ DOMAIN v.o = {}

\* dict.get(key) with the default None
Get(v, key) == IF key \in DOMAIN v.o THEN v.o[key] ELSE JNull

\* dict.get(key, default)
GetOr(v, key, default) == IF key \in DOMAIN v.o THEN v.o[key] ELSE default

-----------------------------------------------------------------------------
(* Lexical tokens of a stream *)

LB == [t |-> "lb"]
RB == [t |-> "rb"]
LSB == [t |-> "lsb"]
RSB == [t |-> "rsb"]
WS == [t |-> "ws"]
TXT == [t |-> "txt"]
Key(k) == [t |-> "key", k |-> k]
TNum(n) == [t |-> "num", n |-> n]
TStr(s) == [t |-> "str", s |-> s]
TNull == [t |-> "null"]

IsScalarTok(tk) == tk.t \in {"num", "str", "null"}

ScalarVal(tk) ==
    CASE tk.t = "num" -> JNum(tk.n)
      [] tk.t = "str" -> JStr(tk.s)
      [] OTHER -> JNull

\* str.strip(): drop leading and trailing whitespace
RECURSIVE LStrip(_)
LStrip(s) == IF s # <<>> /\ Head(s).t = "ws" THEN LStrip(Tail(s)) ELSE s

RECURSIVE RStrip(_)
RStrip(s) ==
    IF s # <<>> /\ s[Len(s)].t = "ws" THEN RStrip(SubSeq(s, 1, Len(s) - 1)) ELSE s

Strip(s) == RStrip(LStrip(s))

-----------------------------------------------------------------------------
(* json.loads: a recursive-descent parse of one document.  A parse result   *)
(* is [ok, v, i]: success, the value, and the position after it.            *)

ParseFail == [ok |-> FALSE, v |-> JNull, i |-> 0]

RECURSIVE ParseValue(_, _)
RECURSIVE ParseMembers(_, _, _)
RECURSIVE ParseElems(_, _, _)

ParseValue(s, i) ==
    IF i > Len(s) THEN ParseFail
    ELSE IF IsScalarTok(s[i]) THEN [ok |-> TRUE, v |-> ScalarVal(s[i]), i |-> i + 1]
    ELSE IF s[i].t = "lb" THEN ParseMembers(s, i + 1, EmptyMap)
    ELSE IF s[i].t = "lsb" THEN ParseElems(s, i + 1, <<>>)
    ELSE ParseFail

\* members of an object; a repeated key keeps the last value, as dict does
ParseMembers(s, i, acc) ==
    IF i > Len(s) THEN ParseFail
    ELSE IF s[i].t = "rb" THEN [ok |-> TRUE, v |-> JObj(acc), i |-> i + 1]
    ELSE IF s[i].t = "key" THEN
        LET r == ParseValue(s, i + 1) IN
        IF r.ok THEN ParseMembers(s, r.i, (s[i].k :> r.v) @@ acc) ELSE ParseFail
    ELSE ParseFail

ParseElems(s, i, acc) ==
    IF i > Len(s) THEN ParseFail
    ELSE IF s[i].t = "rsb" THEN [ok |-> TRUE, v |-> JArr(acc), i |-> i + 1]
    ELSE LET r == ParseValue(s, i) IN
         IF r.ok THEN ParseElems(s, r.i, Append(acc, r.v)) ELSE ParseFail

NotWs(tk) == tk.t # "ws"

\* json.loads(text): whitespace between tokens is insignificant; anything
\* left after the document ("Extra data") is a JSONDecodeError.
JsonLoads(s) ==
    LET c == SelectSeq(s, NotWs)
        r == ParseValue(c, 1)
    IN  IF r.ok /\ r.i = Len(c) + 1
        THEN [ok |-> TRUE, v |-> r.v]
        ELSE [ok |-> FALSE, v |-> JNull]

-----------------------------------------------------------------------------
(* extract_json *)

\* indices = [idx for idx, ch in enumerate(text) if ch == "{"]
BraceIndices(text) == {i \in 1..Len(text) : text[i].t = "lb"}

Suffix(text, at) == SubSeq(text, at, Len(text))

\* ScanBack that tries the last brace position and no other
ScanBackOnce(text, from) ==
    LET below == {i \in 1..Len(text) : text[i].t = "lb" /\ i <= from} IN
    IF below = {} THEN JNull
    ELSE LET last == CHOOSE i \in below : \A j \in below : j <= i
             res == JsonLoads(Strip(SubSeq(text, last, Len(text))))
         IN  IF res.ok THEN res.v ELSE JNull

\* for idx in reversed(indices): the first chunk that parses, scanning the
\* brace positions from `from` downward
RECURSIVE ScanBack(_, _)
ScanBack(text, from) ==
    LET below == {i \in BraceIndices(text) : i <= from} IN
    IF below = {} THEN JNull
    ELSE LET last == CHOOSE i \in below : \A j \in below : j <= i
             res == JsonLoads(Strip(Suffix(text, last)))
         IN  IF res.ok THEN res.v ELSE ScanBack(text, last - 1)

extract_json(text) ==
    IF text = <<>> THEN JNull
    ELSE LET whole == JsonLoads(text) IN
         IF whole.ok THEN whole.v ELSE ScanBack(text, Len(text))

-----------------------------------------------------------------------------
(* run_compare *)

\* the argument list handed to subprocess.run; an option left out is null
compare_cmd(ref_path, impl_path, threshold, ref_type, impl_type, viewport) ==
    [sub |-> "compare", ref |-> ref_path, impl |-> impl_path, format |-> "json",
     ref_type |-> ref_type, impl_type |-> impl_type,
     viewport |-> viewport, threshold |-> threshold]

\* run_compare that reads standard error before standard output
RunCompareStderrFirst(result) ==
    LET stdout == Strip(result.stdout)
        first == extract_json(Strip(result.stderr))
        payload == IF first = JNull THEN extract_json(stdout) ELSE first
    IN  [code |-> result.returncode, payload |-> payload, stderr |-> Strip(result.stderr)]

\* run_compare that reads no payload from a process that exited nonzero
RunCompareCheckedExit(result) ==
    LET stdout == Strip(result.stdout)
        first == extract_json(stdout)
        payload == IF first = JNull THEN extract_json(Strip(result.stderr)) ELSE first
    IN  [code |-> result.returncode,
         payload |-> IF result.returncode = 0 THEN payload ELSE JNull,
         stderr |-> Strip(result.stderr)]

\* lines 73-77, given the finished process `result`
run_compare(result) ==
    LET stdout == Strip(result.stdout)
        first == extract_json(stdout)
        payload == IF first = JNull THEN extract_json(Strip(result.stderr)) ELSE first
    IN  [code |-> result.returncode, payload |-> payload, stderr |-> Strip(result.stderr)]

-----------------------------------------------------------------------------
(* check_assertions *)

\* "case_id::viewport_name", or the bare case_id when the name is falsy
format_case_id(case_id, viewport_name) ==
    IF Falsy(viewport_name) THEN [id |-> case_id]
    ELSE [id |-> case_id, vp |-> viewport_name.s]

\* one failure message: whom it is about, what failed, and the values quoted
Failure(who, kind, detail) == [who |-> who, kind |-> kind, detail |-> detail]

get_metric(payload, key) ==
    LET metrics == IF Falsy(payload) THEN JNull ELSE Get(payload, "metrics") IN
    IF Falsy(metrics) THEN JNull ELSE Get(metrics, key)

\* group.get(field) if group else None
GroupField(group, field) == IF Falsy(group) THEN JNull ELSE Get(group, field)

\* CheckMin that takes an empty list for an absent one (`if diff_regions:`)
CheckMinTruthy(who, assertions, key, list) ==
    IF /\ key \in DOMAIN assertions
       /\ ~Falsy(list)
       /\ Len(list.a) < assertions[key]
    THEN <<Failure(who, key, [observed |-> Len(list.a), required |-> assertions[key]])>>
    ELSE <<>>

\* a "_min" key: the length of a list against the threshold
CheckMin(who, assertions, key, list) ==
    IF /\ key \in DOMAIN assertions
       /\ list # JNull
       /\ Len(list.a) < assertions[key]
    THEN <<Failure(who, key, [observed |-> Len(list.a), required |-> assertions[key]])>>
    ELSE <<>>

\* CheckMax that also fails a value equal to the threshold
CheckMaxInclusive(who, assertions, key, value) ==
    IF /\ key \in DOMAIN assertions
       /\ value # JNull
       /\ value.n >= assertions[key]
    THEN <<Failure(who, key, [observed |-> value.n, required |-> assertions[key]])>>
    ELSE <<>>

\* a "_max" key: a number against the threshold
CheckMax(who, assertions, key, value) ==
    IF /\ key \in DOMAIN assertions
       /\ value # JNull
       /\ value.n > assertions[key]
    THEN <<Failure(who, key, [observed |-> value.n, required |-> assertions[key]])>>
    ELSE <<>>

\* ErrorPayloadFailure that looks the message up on the payload itself
ErrorPayloadFailureTopLevel(who, payload) ==
    Failure(who, "error payload", [msg |-> GetOr(payload, "message", JStr("unknown error"))])

\* lines 92-93: the one failure of a payload whose mode is "error"
ErrorPayloadFailure(who, payload) ==
    Failure(who, "error payload",
            [msg |-> GetOr(GetOr(payload, "error", JObj(EmptyMap)),
                           "message", JStr("unknown error"))])

\* ThresholdFailures that stops at the first key found violated
ThresholdFailuresFirstOnly(who, payload, assertions) ==
    LET similarity == Get(payload, "similarity")
        pixel == get_metric(payload, "pixel")
        color == get_metric(payload, "color")
        typography == get_metric(payload, "typography")
        layout == get_metric(payload, "layout")
        content == get_metric(payload, "content")
        every ==
            CheckMin(who, assertions, "pixel_regions_min", GroupField(pixel, "diffRegions"))
            \o CheckMin(who, assertions, "color_diffs_min", GroupField(color, "diffs"))
            \o CheckMax(who, assertions, "similarity_max", similarity)
            \o CheckMax(who, assertions, "color_score_max", GroupField(color, "score"))
            \o CheckMax(who, assertions, "typography_score_max", GroupField(typography, "score"))
            \o CheckMax(who, assertions, "layout_score_max", GroupField(layout, "score"))
            \o CheckMax(who, assertions, "content_score_max", GroupField(content, "score"))
    IN  IF every = <<>> THEN <<>> ELSE <<Head(every)>>

\* lines 100-166: the threshold checks of a compare payload, in the order of
\* the code
ThresholdFailures(who, payload, assertions) ==
    LET similarity == Get(payload, "similarity")
        pixel == get_metric(payload, "pixel")
        color == get_metric(payload, "color")
        typography == get_metric(payload, "typography")
        layout == get_metric(payload, "layout")
        content == get_metric(payload, "content")
    IN  CheckMin(who, assertions, "pixel_regions_min", GroupField(pixel, "diffRegions"))
        \o CheckMin(who, assertions, "color_diffs_min", GroupField(color, "diffs"))
        \o CheckMax(who, assertions, "similarity_max", similarity)
        \o CheckMax(who, assertions, "color_score_max", GroupField(color, "score"))
        \o CheckMax(who, assertions, "typography_score_max", GroupField(typography, "score"))
        \o CheckMax(who, assertions, "layout_score_max", GroupField(layout, "score"))
        \o CheckMax(who, assertions, "content_score_max", GroupField(content, "score"))

check_assertions(case_id, payload, assertions, viewport_name) ==
    LET who == format_case_id(case_id, viewport_name) IN
    IF Falsy(payload) THEN
        <<Failure(who, "missing compare payload", [none |-> TRUE])>>
    ELSE IF Get(payload, "mode") = JStr("error") THEN
        <<ErrorPayloadFailure(who, payload)>>
    ELSE IF Get(payload, "mode") # JStr("compare") THEN
        <<Failure(who, "unexpected mode", [mode |-> Get(payload, "mode")])>>
    ELSE ThresholdFailures(who, payload, assertions)

-----------------------------------------------------------------------------
(* The fixtures the harness is run on *)

MaxDirs == 2
MaxLimit == 2

\* generate_fixture_sources.py: base_vp (no name) and the two named viewports
BaseVp == [width |-> 1280, height |-> 720, device_scale_factor |-> 1]

DesktopVp == [name |-> "desktop", width |-> 1280, height |-> 720, device_scale_factor |-> 1]

MobileVp == [name |-> "mobile", width |-> 390, height |-> 844, device_scale_factor |-> 2]

\* a case with the single implicit viewport and derived typography assertions
MetaSingle(d) ==
    [case_id |-> d, category |-> <<"typography">>, complexity |-> "low",
     assertions |-> [typography_score_max |-> 9990],
     viewport |-> BaseVp]

\* a case with the explicit viewports list and per-viewport assertions; the
\* map of "mobile" is empty
MetaMulti(d) ==
    [case_id |-> d, category |-> <<"icon", "layout">>, complexity |-> "high",
     assertions |-> [pixel_regions_min |-> 1, similarity_max |-> 9950],
     viewports |-> <<DesktopVp, MobileVp>>,
     assertions_by_viewport |->
        [desktop |-> [pixel_regions_min |-> 0, similarity_max |-> 10000],
         mobile |-> EmptyMap]]

\* one case directory: its meta.json, and whether ref.html and impl.html both
\* exist under the fixture-source directory
DirEntries(d) == {[meta |-> m, src_ok |-> b] : m \in {MetaSingle(d), MetaMulti(d)},
                                               b \in BOOLEAN}

Fixtures ==
    UNION {{f \in [D -> UNION {DirEntries(d) : d \in D}] :
                \A d \in D : f[d] \in DirEntries(d)} : D \in SUBSET (1..MaxDirs)}

LimitChoices == {JNull} \cup {JNum(n) : n \in 0..MaxLimit}

-----------------------------------------------------------------------------
(* What one comparator process can answer: exit code, stdout, stderr *)

ErrorDoc ==
    <<LB, Key("mode"), TStr("error"),
          Key("error"), LB, Key("message"), TStr("boom"), RB, RB>>

ModeDoc == <<LB, Key("mode"), TStr("diff"), RB>>

CompareDoc ==
    <<LB, Key("mode"), TStr("compare"), Key("similarity"), TNum(9900),
          Key("metrics"), LB,
              Key("pixel"), LB, Key("diffRegions"), LSB, LB, RB, RSB, RB,
              Key("typography"), LB, Key("score"), TNum(9995), RB,
          RB, RB>>

ComparatorResults ==
    { [returncode |-> 2, stdout |-> <<>>, stderr |-> <<TXT, WS>>],
      [returncode |-> 1, stdout |-> <<TXT, WS>> \o ErrorDoc \o <<WS>>, stderr |-> <<>>],
      [returncode |-> 0, stdout |-> <<WS>>, stderr |-> <<TXT, WS>> \o ModeDoc],
      [returncode |-> 0, stdout |-> CompareDoc \o <<WS>>, stderr |-> <<TXT>>] }

-----------------------------------------------------------------------------
(* load_cases and main *)

\* sorted(fixtures_dir.iterdir())
RECURSIVE Sorted(_)
Sorted(D) ==
    IF D = {} THEN <<>>
    ELSE LET least == CHOOSE d \in D : \A e \in D : d <= e
         IN  <<least>> \o Sorted(D \ {least})

\* load_cases yielding the directories in the reverse of the sorted order
LoadCasesReversed(fixtures) ==
    LET sorted == Sorted(DOMAIN fixtures)
    IN  [k \in 1..Len(sorted) |-> sorted[Len(sorted) + 1 - k]]

\* lines 10-17
load_cases(fixtures) == Sorted(DOMAIN fixtures)

\* seq[:n]
SlicePrefix(seq, n) ==
    IF n >= 0 THEN SubSeq(seq, 1, IF n < Len(seq) THEN n ELSE Len(seq))
    ELSE SubSeq(seq, 1, Len(seq) + n)

\* lines 225-241: load, limit, refuse an empty case list, open the report
LoadCases ==
    /\ pc = "start"
    /\ LET loaded == load_cases(dirs)
           limited == IF Falsy(args.limit) THEN loaded
                      ELSE SlicePrefix(loaded, args.limit.n)
       IN  /\ cases' = limited
           /\ IF limited = <<>>
              THEN /\ exit_status' = 1
                   /\ pc' = "done"
                   /\ idx' = idx
              ELSE /\ exit_status' = exit_status
                   /\ pc' = "case"
                   /\ idx' = 1
    /\ failures' = <<>>
    /\ errors' = 0
    /\ report' = <<>>
    /\ UNCHANGED <<stream, extracted, assert_vars, gen_vars, compare_vars, args, dirs, viewports, vpi, inflight, invocations, summary_out>>

CaseMeta == dirs[cases[idx]].meta

CaseId == GetOr([o |-> CaseMeta], "case_id", cases[idx])

IsMulti == "viewports" \in DOMAIN CaseMeta

\* lines 274-281: the viewports the case is evaluated at
ResolveViewports ==
    IF args.use_html
    THEN IF IsMulti THEN CaseMeta.viewports
         ELSE IF "viewport" \in DOMAIN CaseMeta THEN <<CaseMeta.viewport>> ELSE <<>>
    ELSE <<JNull>>

\* the report line of a case whose HTML sources are missing (lines 260-270)
MissingSourceRecord(case_id) ==
    [case_id |-> case_id, status |-> "error", error |-> [literal |-> "missing HTML source"]]

\* lines 243-287: the head of the loop over the cases
BeginCase ==
    /\ pc = "case"
    /\ idx <= Len(cases)
    /\ IF args.use_html /\ ~dirs[cases[idx]].src_ok
       THEN /\ errors' = errors + 1
            /\ failures' = Append(failures,
                    Failure([id |-> CaseId], "missing HTML source", [dir |-> cases[idx]]))
            /\ report' = Append(report, MissingSourceRecord(CaseId))
            /\ idx' = idx + 1
            /\ UNCHANGED <<pc, viewports, vpi>>
       ELSE /\ viewports' = ResolveViewports
            /\ IF ResolveViewports = <<>>
               THEN /\ idx' = idx + 1
                    /\ UNCHANGED <<pc, vpi>>
               ELSE /\ vpi' = 1
                    /\ pc' = "viewport"
                    /\ idx' = idx
            /\ UNCHANGED <<errors, failures, report>>
    /\ UNCHANGED <<stream, extracted, assert_vars, gen_vars, compare_vars, args, dirs, cases, inflight, invocations, exit_status, summary_out>>

Vp == viewports[vpi]

\* vp.get("name") if isinstance(vp, dict) else None
ViewportName ==
    IF Vp = JNull THEN JNull
    ELSE IF "name" \in DOMAIN Vp THEN JStr(Vp.name) ELSE JNull

\* a file of the rendered fixtures (raster mode) or of the fixture sources
\* (source mode, as a file:// location)
FixturePath(root, dir, role, suffix, ext) ==
    [root |-> root, dir |-> dir, role |-> role, suffix |-> suffix, ext |-> ext]

\* lines 298-304: ref{suffix}.png / impl{suffix}.png
RasterInput(role) ==
    IF IsMulti
    THEN FixturePath("fixtures", cases[idx], role,
                     IF Falsy(ViewportName) THEN JStr("desktop") ELSE ViewportName, "png")
    ELSE FixturePath("fixtures", cases[idx], role, JNull, "png")

HtmlInput(role) == FixturePath("fixtures_src", cases[idx], role, JNull, "html")

\* lines 290-314: the command line of this viewport's comparison
ViewportCmd ==
    IF args.use_html
    THEN compare_cmd(HtmlInput("ref"), HtmlInput("impl"), args.threshold,
                     JStr("url"), JStr("url"),
                     IF Vp = JNull THEN JNull
                     ELSE [width |-> Vp.width, height |-> Vp.height])
    ELSE compare_cmd(RasterInput("ref"), RasterInput("impl"), args.threshold,
                     JNull, JNull, JNull)

\* Spawn that does not wait for the process: the loop moves on at once
SpawnDetached ==
    /\ pc = "viewport"
    /\ inflight' = Append(inflight, ViewportCmd)
    /\ invocations' = Append(invocations, ViewportCmd)
    /\ IF vpi < Len(viewports)
       THEN /\ vpi' = vpi + 1
            /\ pc' = "viewport"
            /\ idx' = idx
       ELSE /\ idx' = idx + 1
            /\ pc' = "case"
            /\ vpi' = vpi
    /\ UNCHANGED <<stream, extracted, assert_vars, gen_vars, compare_vars, args, dirs, cases,
                   viewports, failures, errors, report, exit_status, summary_out>>

\* subprocess.run is entered: the comparator process is started
Spawn ==
    /\ pc = "viewport"
    /\ inflight' = Append(inflight, ViewportCmd)
    /\ invocations' = Append(invocations, ViewportCmd)
    /\ pc' = "await"
    /\ UNCHANGED <<stream, extracted, assert_vars, gen_vars, compare_vars, args, dirs, cases, idx, viewports, vpi,
                   failures, errors, report, exit_status, summary_out>>

\* ResolveAssertions with the per-viewport map laid over the case-level map
\* instead of replacing it
ResolveAssertionsMerged(meta, viewport_name) ==
    LET assertions == IF "assertions" \in DOMAIN meta THEN meta.assertions ELSE EmptyMap
        assertions_by_viewport ==
            IF "assertions_by_viewport" \in DOMAIN meta
            THEN meta.assertions_by_viewport ELSE EmptyMap
    IN  IF viewport_name # JNull /\ viewport_name.s \in DOMAIN assertions_by_viewport
        THEN assertions_by_viewport[viewport_name.s] @@ assertions
        ELSE assertions

\* lines 335-339
ResolveAssertions(meta, viewport_name) ==
    LET assertions == IF "assertions" \in DOMAIN meta THEN meta.assertions ELSE EmptyMap
        assertions_by_viewport ==
            IF "assertions_by_viewport" \in DOMAIN meta
            THEN meta.assertions_by_viewport ELSE EmptyMap
    IN  IF viewport_name # JNull /\ viewport_name.s \in DOMAIN assertions_by_viewport
        THEN assertions_by_viewport[viewport_name.s]
        ELSE assertions

\* NoPayloadRecord written as one more failed comparison
NoPayloadRecordAsFail(case_id, viewport_name, stderr) ==
    [case_id |-> case_id, viewport |-> viewport_name, status |-> "fail",
     error |-> IF stderr = <<>> THEN [literal |-> "no json output"] ELSE [text |-> stderr]]

\* the report line of a comparison that gave no payload (lines 321-332)
NoPayloadRecord(case_id, viewport_name, stderr) ==
    [case_id |-> case_id, viewport |-> viewport_name, status |-> "error",
     error |-> IF stderr = <<>> THEN [literal |-> "no json output"] ELSE [text |-> stderr]]

\* EvaluatedRecord whose status is "ok" whatever the evaluation found
EvaluatedRecordStatusOk(case_id, viewport_name, case_failures, assertions_to_use, meta, payload) ==
    [case_id |-> case_id, viewport |-> viewport_name,
     status |-> "ok",
     failures |-> case_failures,
     assertions |-> assertions_to_use,
     meta |-> [category |-> meta.category, complexity |-> meta.complexity],
     result |-> payload]

\* the report line of an evaluated comparison (lines 346-365); the timestamp
\* and the mutations and expectations of the meta snapshot are left out
EvaluatedRecord(case_id, viewport_name, case_failures, assertions_to_use, meta, payload) ==
    [case_id |-> case_id, viewport |-> viewport_name,
     status |-> IF case_failures = <<>> THEN "ok" ELSE "fail",
     failures |-> case_failures,
     assertions |-> assertions_to_use,
     meta |-> [category |-> meta.category, complexity |-> meta.complexity],
     result |-> payload]

\* Advance that gives up the run at the first failure or error recorded
AdvanceFailFast ==
    IF Len(failures') > Len(failures)
    THEN /\ pc' = "done"
         /\ idx' = idx
         /\ vpi' = vpi
    ELSE IF vpi < Len(viewports)
    THEN /\ vpi' = vpi + 1
         /\ pc' = "viewport"
         /\ idx' = idx
    ELSE /\ idx' = idx + 1
         /\ pc' = "case"
         /\ vpi' = vpi

\* the for statements of lines 288 and 243: next viewport, else next case
Advance ==
    IF vpi < Len(viewports)
    THEN /\ vpi' = vpi + 1
         /\ pc' = "viewport"
         /\ idx' = idx
    ELSE /\ idx' = idx + 1
         /\ pc' = "case"
         /\ vpi' = vpi

\* EvaluateViewport that counts an absent payload without a message for it
EvaluateViewportSilentError(r, case_id, meta, viewport_name) ==
    IF r.payload = JNull
    THEN [failures |-> <<>>,
          errors |-> 1,
          line |-> NoPayloadRecord(case_id, viewport_name, r.stderr)]
    ELSE LET assertions_to_use == ResolveAssertions(meta, viewport_name)
             case_failures ==
                check_assertions(case_id, r.payload, assertions_to_use, viewport_name)
         IN  [failures |-> case_failures,
              errors |-> 0,
              line |-> EvaluatedRecord(case_id, viewport_name, case_failures,
                                       assertions_to_use, meta, r.payload)]

\* lines 315-365, given what run_compare returned: the messages added to the
\* failure list, the increment of the error counter and the report line
EvaluateViewport(r, case_id, meta, viewport_name) ==
    IF r.payload = JNull
    THEN [failures |-> <<Failure(format_case_id(case_id, viewport_name), "no JSON output",
                                 [code |-> r.code, stderr |-> r.stderr])>>,
          errors |-> 1,
          line |-> NoPayloadRecord(case_id, viewport_name, r.stderr)]
    ELSE LET assertions_to_use == ResolveAssertions(meta, viewport_name)
             case_failures ==
                check_assertions(case_id, r.payload, assertions_to_use, viewport_name)
         IN  [failures |-> case_failures,
              errors |-> 0,
              line |-> EvaluatedRecord(case_id, viewport_name, case_failures,
                                       assertions_to_use, meta, r.payload)]

\* lines 73-77 and 315-365: the comparator has ended; its streams are read,
\* the payload is evaluated and one report line is written
Complete ==
    /\ pc = "await"
    /\ \E result \in ComparatorResults :
        LET r == run_compare(result)
            out == EvaluateViewport(r, CaseId, CaseMeta, ViewportName)
        IN
        /\ failures' = failures \o out.failures
        /\ errors' = errors + out.errors
        /\ report' = Append(report, out.line)
    /\ inflight' = <<>>
    /\ Advance
    /\ UNCHANGED <<stream, extracted, assert_vars, gen_vars, compare_vars, args, dirs, cases, viewports, invocations, exit_status, summary_out>>

\* line 372: the number of messages the summary lists
SummaryLimit == 50

\* summary_lines that never prints the truncation notice
SummaryLinesNoNotice(total, fails, errs) ==
    <<[kind |-> "total", n |-> total], [kind |-> "failures", n |-> Len(fails)],
      [kind |-> "errors", n |-> errs]>>
    \o (IF fails = <<>> THEN <<>>
        ELSE <<[kind |-> "heading"]>>
             \o [k \in 1..(IF Len(fails) < SummaryLimit THEN Len(fails) ELSE SummaryLimit) |->
                    [kind |-> "item", failure |-> fails[k]]])

\* lines 367-375: the counts, then the heading, the first messages and the
\* notice of how many more there are
summary_lines(total, fails, errs) ==
    <<[kind |-> "total", n |-> total], [kind |-> "failures", n |-> Len(fails)],
      [kind |-> "errors", n |-> errs]>>
    \o (IF fails = <<>> THEN <<>>
        ELSE <<[kind |-> "heading"]>>
             \o [k \in 1..(IF Len(fails) < SummaryLimit THEN Len(fails) ELSE SummaryLimit) |->
                    [kind |-> "item", failure |-> fails[k]]]
             \o (IF Len(fails) > SummaryLimit
                 THEN <<[kind |-> "more", n |-> Len(fails) - SummaryLimit]>>
                 ELSE <<>>))

\* ExitStatus with the strict flag forgotten
ExitStatusUngated(strict, fails, errs) ==
    IF fails # <<>> \/ errs # 0 THEN 1 ELSE 0

\* lines 380-381
ExitStatus(strict, fails, errs) ==
    IF strict /\ (fails # <<>> \/ errs # 0) THEN 1 ELSE 0

\* lines 367-381: the summary is printed, the report closed, the process ends
Summary ==
    /\ pc = "case"
    /\ idx > Len(cases)
    /\ summary_out' = summary_lines(Len(cases), failures, errors)
    /\ exit_status' = ExitStatus(args.strict, failures, errors)
    /\ pc' = "done"
    /\ UNCHANGED <<stream, extracted, assert_vars, gen_vars, compare_vars, args, dirs, cases, idx, viewports, vpi,
                   failures, errors, report, inflight, invocations>>

Init ==
    /\ pc = "start"
    /\ stream = <<>>
    /\ extracted = JNull
    /\ args \in {[strict |-> s, use_html |-> h, limit |-> l, threshold |-> JNull] :
                    s \in BOOLEAN, h \in BOOLEAN, l \in LimitChoices}
    /\ dirs \in Fixtures
    \* raster mode never looks at the fixture-source directory
    /\ args.use_html \/ \A d \in DOMAIN dirs : dirs[d].src_ok
    /\ cases = <<>>
    /\ idx = 0
    /\ viewports = <<>>
    /\ vpi = 0
    /\ failures = <<>>
    /\ errors = 0
    /\ report = <<>>
    /\ inflight = <<>>
    /\ invocations = <<>>
    /\ exit_status = 0
    /\ summary_out = <<>>
    /\ AssertIdle
    /\ GenIdle
    /\ CompareIdle

Next == LoadCases \/ BeginCase \/ Spawn \/ Complete \/ Summary

Spec == Init /\ [][Next]_vars

-----------------------------------------------------------------------------
(* SpecSummary: the end of a long raster-mode run, over cases of two        *)
(* viewports whose comparators all gave the same answer                     *)

MaxFailures == 52

\* what lines 289-365 give for case d when its comparator answers `result`
CaseOutcome(d, result) == EvaluateViewport(run_compare(result), d, MetaMulti(d), JNull)

\* what the loop of main() has accumulated after the cases 1..n, every one
\* of which added the same number of messages
LoopOutcome(n, result) ==
    LET each == Len(CaseOutcome(1, result).failures)
    IN  [failures |-> [k \in 1..(n * each) |->
                        CaseOutcome(((k - 1) \div each) + 1, result).failures[((k - 1) % each) + 1]],
         errors |-> n * CaseOutcome(1, result).errors,
         report |-> [d \in 1..n |-> CaseOutcome(d, result).line]]

\* the loop over the cases has just ended
InitSummary ==
    /\ pc = "case"
    /\ stream = <<>>
    /\ extracted = JNull
    /\ args \in {[strict |-> strict, use_html |-> FALSE, limit |-> JNull, threshold |-> JNull] :
                    strict \in BOOLEAN}
    /\ \E n \in 1..MaxFailures, result \in ComparatorResults :
          /\ dirs = [d \in 1..n |-> [meta |-> MetaMulti(d), src_ok |-> TRUE]]
          /\ cases = [d \in 1..n |-> d]
          /\ idx = n + 1
          /\ failures = LoopOutcome(n, result).failures
          /\ errors = LoopOutcome(n, result).errors
          /\ report = LoopOutcome(n, result).report
          /\ invocations =
                [d \in 1..n |->
                    compare_cmd(FixturePath("fixtures", d, "ref", JStr("desktop"), "png"),
                                FixturePath("fixtures", d, "impl", JStr("desktop"), "png"),
                                JNull, JNull, JNull, JNull)]
    /\ viewports = <<JNull>>
    /\ vpi = 1
    /\ inflight = <<>>
    /\ exit_status = 0
    /\ summary_out = <<>>
    /\ AssertIdle
    /\ GenIdle
    /\ CompareIdle

NextSummary == Summary

SpecSummary == InitSummary /\ [][NextSummary]_vars

-----------------------------------------------------------------------------
(* SpecExtract: extract_json applied to every short stream *)

MaxLen == 5

ExtractAlphabet == {LB, RB, Key("mode"), TStr("compare"), TNum(1), WS, TXT}

RECURSIVE StreamsUpTo(_)
StreamsUpTo(n) ==
    IF n = 0 THEN {<<>>}
    ELSE LET shorter == StreamsUpTo(n - 1) IN
         shorter \cup {Append(s, tk) : s \in {x \in shorter : Len(x) = n - 1},
                                         tk \in ExtractAlphabet}

\* "warming up...\n{"mode":"compare","similarity":0.9}\ndone"
WarmingUpObject ==
    <<Key("mode"), TStr("compare"), Key("similarity"), TNum(9000)>>

WarmingUpStream ==
    <<TXT, WS, LB>> \o WarmingUpObject \o <<RB, WS, TXT>>

WarmingUpPayload ==
    JObj([k \in {"mode", "similarity"} |->
            IF k = "mode" THEN JStr("compare") ELSE JNum(9000)])

\* log text, an error object, and a compare object at the end
TwoObjectsStream ==
    <<TXT, WS, LB, Key("mode"), TStr("error"), RB, WS,
      LB, Key("mode"), TStr("compare"), RB, WS>>

\* log text, then an object that holds an object
NestedObjectStream ==
    <<TXT, WS, LB, Key("mode"), TStr("compare"), Key("metrics"), LB, RB, RB>>

ExtractInputs ==
    StreamsUpTo(MaxLen) \cup {WarmingUpStream, TwoObjectsStream, NestedObjectStream}

InitExtract ==
    /\ pc = "input"
    /\ stream \in ExtractInputs
    /\ extracted = JNull
    /\ HarnessIdle
    /\ AssertIdle
    /\ GenIdle
    /\ CompareIdle

Extract ==
    /\ pc = "input"
    /\ extracted' = extract_json(stream)
    /\ pc' = "extracted"
    /\ UNCHANGED <<stream, harness_vars, assert_vars, gen_vars, compare_vars>>

NextExtract == Extract

SpecExtract == InitExtract /\ [][NextExtract]_vars

-----------------------------------------------------------------------------
(* SpecAssert: check_assertions applied to payloads and assertion maps *)

MaxRegions == 1
MaxKeys == 2

AssertionKeys ==
    {"pixel_regions_min", "color_diffs_min", "similarity_max", "color_score_max",
     "typography_score_max", "layout_score_max", "content_score_max"}

\* thresholds as the generator derives them (layout_score_max is only ever
\* written by hand)
DerivedThresholds ==
    [pixel_regions_min |-> 1, color_diffs_min |-> 1, similarity_max |-> 9950,
     color_score_max |-> 9995, typography_score_max |-> 9990,
     layout_score_max |-> 9950, content_score_max |-> 9500]

\* hand-written thresholds that no observed value can meet
StrictThresholds ==
    [pixel_regions_min |-> MaxRegions + 1, color_diffs_min |-> 2, similarity_max |-> -1,
     color_score_max |-> -1, typography_score_max |-> -1,
     layout_score_max |-> -1, content_score_max |-> -1]

Restrict(f, S) == [k \in S |-> f[k]]

AssertionMaps ==
    {Restrict(th, S) : th \in {DerivedThresholds, StrictThresholds},
                       S \in {T \in SUBSET AssertionKeys :
                                Cardinality(T) <= MaxKeys \/ T = AssertionKeys}}

Score(n) == JObj([k \in {"score"} |-> JNum(n)])

Region == JObj(EmptyMap)

RECURSIVE Regions(_)
Regions(n) == IF n = 0 THEN <<>> ELSE Append(Regions(n - 1), Region)

PixelChoices ==
    {JNull, JObj(EmptyMap)}
    \cup {JObj([k \in {"diffRegions"} |-> JArr(Regions(n))]) : n \in 0..MaxRegions}

ColorChoices ==
    { JNull,
      JObj([k \in {"diffs"} |-> JArr(<<>>)]),
      JObj([diffs |-> JArr(<<Region>>), score |-> JNum(9995)]),
      JObj([k \in {"score"} |-> JNum(9996)]),
      JObj([diffs |-> JArr(<<>>), score |-> JNum(0)]) }

\* typography, layout and content scores
ScoreProfiles ==
    { [typography |-> JNull, layout |-> JNull, content |-> JNull],
      [typography |-> Score(9990), layout |-> Score(9950), content |-> Score(9500)],
      [typography |-> Score(9991), layout |-> Score(9951), content |-> Score(9501)],
      [typography |-> Score(0), layout |-> Score(0), content |-> Score(0)],
      [typography |-> Score(9991), layout |-> Score(9950), content |-> JNull],
      [typography |-> JObj(EmptyMap), layout |-> Score(9951), content |-> Score(9501)] }

\* an object with the members whose value is not null
ObjOf(f) == JObj([k \in {x \in DOMAIN f : f[x] # JNull} |-> f[k]])

MetricsChoices ==
    {JNull, JObj(EmptyMap)}
    \cup {ObjOf([pixel |-> p, color |-> c, typography |-> sp.typography,
                 layout |-> sp.layout, content |-> sp.content]) :
            p \in PixelChoices, c \in ColorChoices, sp \in ScoreProfiles}

SimilarityChoices == {JNull, JNum(0), JNum(9950), JNum(9951)}

ComparePayloads ==
    {ObjOf([mode |-> JStr("compare"), similarity |-> sim, metrics |-> m]) :
        sim \in SimilarityChoices, m \in MetricsChoices}

\* metrics that break every derived threshold
BadMetrics ==
    ObjOf([pixel |-> JObj([k \in {"diffRegions"} |-> JArr(<<>>)]),
           color |-> JObj([diffs |-> JArr(<<>>), score |-> JNum(9996)]),
           typography |-> Score(9991), layout |-> Score(9951), content |-> Score(9501)])

ErrorChoices ==
    {JNull, JObj(EmptyMap), JObj([k \in {"message"} |-> JStr("boom")])}

OtherPayloads ==
    {ObjOf([mode |-> mode, error |-> err, similarity |-> sim, metrics |-> m]) :
        mode \in {JNull, JStr("error"), JStr("diff")}, err \in ErrorChoices,
        sim \in {JNull, JNum(9951)}, m \in {JNull, BadMetrics}}

AssertPayloads == {JNull} \cup ComparePayloads \cup OtherPayloads

InitAssert ==
    /\ pc = "args"
    /\ subject \in {[case_id |-> 1, payload |-> p, assertions |-> a, viewport_name |-> v] :
                        p \in AssertPayloads, a \in AssertionMaps,
                        v \in {JNull, JStr("mobile")}}
    /\ verdict = <<>>
    /\ stream = <<>>
    /\ extracted = JNull
    /\ HarnessIdle
    /\ GenIdle
    /\ CompareIdle

Check ==
    /\ pc = "args"
    /\ verdict' = check_assertions(subject.case_id, subject.payload,
                                   subject.assertions, subject.viewport_name)
    /\ pc' = "checked"
    /\ UNCHANGED <<stream, extracted, harness_vars, subject, gen_vars, compare_vars>>

NextAssert == Check

SpecAssert == InitAssert /\ [][NextAssert]_vars

-----------------------------------------------------------------------------
(* generate_fixture_sources.py: the derivation of the default assertions    *)
(* and add_case.  A mutation is a record that may lack its "property" or    *)
(* its "delta"; an argument that may be None is a tagged value, and a       *)
(* mutation list is an array value.                                         *)

\* x in list
InList(x, list) == \E i \in 1..Len(list) : list[i] = x

DELTA_ORDER == [tiny |-> 0, small |-> 1, medium |-> 2, large |-> 3]

typography_props ==
    {"font-size", "font-weight", "line-height", "letter-spacing", "font-family"}

\* m.get(field): the string, or None
MutationField(m, field) == IF field \in DOMAIN m THEN JStr(m[field]) ELSE JNull

\* DELTA_ORDER.get(m.get("delta"))
DeltaLevel(m) ==
    LET delta == MutationField(m, "delta") IN
    IF delta # JNull /\ delta.s \in DOMAIN DELTA_ORDER
    THEN JNum(DELTA_ORDER[delta.s]) ELSE JNull

\* levels = [lvl for lvl in levels if lvl is not None], as positions
Recognized(list) == {i \in 1..Len(list) : DeltaLevel(list[i]) # JNull}

\* max_delta_level that answers the level of the first recognized delta
MaxDeltaLevelFirst(mutations) ==
    IF Falsy(mutations) THEN JNull
    ELSE LET at == Recognized(mutations.a) IN
         IF at = {} THEN JNull
         ELSE DeltaLevel(mutations.a[CHOOSE i \in at : \A j \in at : i <= j])

\* max_delta_level that answers the level of the last recognized delta
MaxDeltaLevelLast(mutations) ==
    IF Falsy(mutations) THEN JNull
    ELSE LET at == Recognized(mutations.a) IN
         IF at = {} THEN JNull
         ELSE DeltaLevel(mutations.a[CHOOSE i \in at : \A j \in at : j <= i])

\* max_delta_level that looks at the mutations of typography properties only
MaxDeltaLevelOfTypography(mutations) ==
    IF Falsy(mutations) THEN JNull
    ELSE LET levels ==
                {DeltaLevel(mutations.a[i]).n :
                    i \in {j \in Recognized(mutations.a) :
                            LET property == MutationField(mutations.a[j], "property") IN
                            property # JNull /\ property.s \in typography_props}}
         IN  IF levels = {} THEN JNull
             ELSE JNum(CHOOSE lvl \in levels : \A other \in levels : other <= lvl)

\* lines 495-500
max_delta_level(mutations) ==
    IF Falsy(mutations) THEN JNull
    ELSE LET levels == {DeltaLevel(mutations.a[i]).n : i \in Recognized(mutations.a)} IN
         IF levels = {} THEN JNull
         ELSE JNum(CHOOSE lvl \in levels : \A other \in levels : other <= lvl)

\* has_typography_change that takes any mutation of a property for one
HasAnyPropertyChange(mutations) ==
    IF Falsy(mutations) THEN FALSE
    ELSE \E i \in 1..Len(mutations.a) : MutationField(mutations.a[i], "property") # JNull

has_typography_change(mutations) ==
    IF Falsy(mutations) THEN FALSE
    ELSE \E i \in 1..Len(mutations.a) :
            LET property == MutationField(mutations.a[i], "property") IN
            property # JNull /\ property.s \in typography_props

\* the entries one rule adds when its test holds
Rule(test, entries) == IF test THEN entries ELSE EmptyMap

\* lines 525-532: the typography threshold of a delta level
TypographyRule(delta_level) ==
    IF delta_level = JNum(0) THEN [typography_score_max |-> 9999]
    ELSE IF delta_level = JNum(1) THEN [typography_score_max |-> 9990]
    ELSE IF delta_level = JNum(2) THEN [typography_score_max |-> 9950]
    ELSE IF delta_level = JNum(3) THEN [typography_score_max |-> 9900]
    ELSE EmptyMap

\* default_assertions whose category tests are the branches of one if/elif
DefaultAssertionsExclusive(category, complexity, mutations) ==
    (IF InList("layout", category) \/ InList("spacing", category) \/ InList("icon", category)
     THEN [pixel_regions_min |-> 1]
     ELSE IF InList("color", category)
     THEN [color_diffs_min |-> 1, color_score_max |-> 9995]
     ELSE IF InList("typography", category) /\ has_typography_change(mutations)
     THEN TypographyRule(max_delta_level(mutations))
     ELSE IF InList("copy", category)
     THEN [content_score_max |-> 9500]
     ELSE EmptyMap)
    @@ Rule(complexity = "high", [similarity_max |-> 9950])

default_assertions(category, complexity, mutations) ==
    Rule(InList("layout", category) \/ InList("spacing", category) \/ InList("icon", category),
         [pixel_regions_min |-> 1])
    @@ Rule(InList("color", category), [color_diffs_min |-> 1, color_score_max |-> 9995])
    @@ Rule(InList("typography", category) /\ has_typography_change(mutations),
            TypographyRule(max_delta_level(mutations)))
    @@ Rule(InList("copy", category), [content_score_max |-> 9500])
    @@ Rule(complexity = "high", [similarity_max |-> 9950])

\* `if viewport:` for a dict argument that may be None
TruthyDict(d) == d # JNull /\ DOMAIN d # {}

\* lines 556-575; title, expectations and notes are left out of the record
add_case(case_list, case_id, category, complexity, mutations, ref_html, impl_html, viewport, viewport_list, assertions, assertions_by_viewport) ==
    Append(case_list,
        [case_id |-> case_id, category |-> category, complexity |-> complexity,
         mutations |-> mutations,
         assertions |-> IF Falsy(assertions)
                        THEN default_assertions(category, complexity, mutations)
                        ELSE assertions.o,
         ref_html |-> ref_html, impl_html |-> impl_html]
        @@ (IF TruthyDict(viewport) THEN [viewport |-> viewport] ELSE EmptyMap)
        @@ (IF ~Falsy(viewport_list) THEN [viewports |-> viewport_list.a] ELSE EmptyMap)
        @@ (IF ~Falsy(assertions_by_viewport)
            THEN [assertions_by_viewport |-> assertions_by_viewport.o] ELSE EmptyMap))

-----------------------------------------------------------------------------
(* SpecGenerate: the derivation functions and add_case applied to one call  *)

MaxTags == 2
MaxMutations == 2

\* the category tags of the generated cases; "component" fires no rule
CategoryTags ==
    <<"layout", "spacing", "icon", "color", "typography", "copy", "component">>

\* the tags at the positions T, in the order of CategoryTags
TagList(T) == [k \in 1..Cardinality(T) |-> CategoryTags[Sorted(T)[k]]]

Categories ==
    {TagList(T) : T \in {S \in SUBSET (1..Len(CategoryTags)) : Cardinality(S) <= MaxTags}}

Complexities == {"low", "medium", "high"}

\* the mutations a call can list: each typography property, each delta
\* level, an unrecognized delta, a missing delta and a missing property
MutationChoices ==
    { [property |-> "font-size", delta |-> "tiny"],
      [property |-> "font-weight", delta |-> "small"],
      [property |-> "line-height", delta |-> "medium"],
      [property |-> "letter-spacing", delta |-> "large"],
      [property |-> "font-family", delta |-> "swap"],
      [property |-> "background", delta |-> "large"],
      [property |-> "padding"],
      [delta |-> "small"] }

RECURSIVE ListsUpTo(_, _)
ListsUpTo(S, n) ==
    IF n = 0 THEN {<<>>}
    ELSE LET shorter == ListsUpTo(S, n - 1) IN
         shorter \cup {Append(l, x) : l \in {y \in shorter : Len(y) = n - 1}, x \in S}

MutationLists == {JNull} \cup {JArr(l) : l \in ListsUpTo(MutationChoices, MaxMutations)}

GenCalls ==
    {[case_id |-> 1, category |-> c, complexity |-> x, mutations |-> m,
      ref_html |-> "ref", impl_html |-> "impl", given |-> JNull] :
        c \in Categories, x \in Complexities, m \in MutationLists}

\* the optional arguments of add_case: as main() passes them for a case of
\* one viewport and for a case of two, and with an explicit assertions map,
\* empty or not
OptionalArgs(c) ==
    { [viewport |-> BaseVp, viewports |-> JNull, assertions |-> JNull,
       assertions_by_viewport |-> JNull],
      [viewport |-> JNull, viewports |-> JArr(<<DesktopVp, MobileVp>>),
       assertions |-> JNull,
       assertions_by_viewport |->
          JObj([desktop |-> [pixel_regions_min |-> 0, similarity_max |-> 10000],
                mobile |-> default_assertions(c.category, c.complexity, c.mutations)])],
      [viewport |-> BaseVp, viewports |-> JNull, assertions |-> JObj(EmptyMap),
       assertions_by_viewport |-> JNull],
      [viewport |-> BaseVp, viewports |-> JNull,
       assertions |-> JObj([layout_score_max |-> 9950]),
       assertions_by_viewport |-> JNull] }

InitGenerate ==
    /\ pc = "call"
    /\ call \in GenCalls
    /\ derived = JNull
    /\ gen_cases = <<>>
    /\ PersistIdle
    /\ stream = <<>>
    /\ extracted = JNull
    /\ HarnessIdle
    /\ AssertIdle
    /\ CompareIdle

\* the three derivation functions are called on the arguments
Derive ==
    /\ pc = "call"
    /\ derived' = [assertions |-> default_assertions(call.category, call.complexity,
                                                     call.mutations),
                   delta_level |-> max_delta_level(call.mutations),
                   typography_change |-> has_typography_change(call.mutations)]
    /\ pc' = "derived"
    /\ UNCHANGED <<stream, extracted, harness_vars, assert_vars, compare_vars, call, gen_cases,
                   out_dir, widx, runs, first_out>>

\* add_case is called on the same arguments; call.given becomes what the
\* caller passed for the optional ones
AddCase ==
    /\ pc = "derived"
    /\ \E opt \in OptionalArgs(call) :
          /\ gen_cases' = add_case(gen_cases, call.case_id, call.category, call.complexity,
                                   call.mutations, call.ref_html, call.impl_html,
                                   opt.viewport, opt.viewports, opt.assertions,
                                   opt.assertions_by_viewport)
          /\ call' = [call EXCEPT !.given = opt]
    /\ pc' = "added"
    /\ UNCHANGED <<stream, extracted, harness_vars, assert_vars, compare_vars, derived,
                   out_dir, widx, runs, first_out>>

NextGenerate == Derive \/ AddCase

SpecGenerate == InitGenerate /\ [][NextGenerate]_vars

-----------------------------------------------------------------------------
(* SpecPersist: main() of generate_fixture_sources.py, the add_case calls   *)
(* and the loop that writes the cases, run over an existing output          *)
(* directory and then run again.  A directory is a map from file names to   *)
(* contents.                                                                *)

MaxIds == 2
MaxCases == 2
MaxRuns == 2

\* lines 483-489
case_meta(kwargs) ==
    kwargs @@ [schema_version |-> "1.0",
               assets |-> [fonts |-> <<"Helvetica Neue">>, images |-> <<>>]]

\* the keys popped from a case before its metadata is written
HtmlKeys == {"ref_html", "impl_html"}

\* write_case that lays the new metadata over the document already there
WriteCaseMerged(directory, record) ==
    LET case_dir == IF record.case_id \in DOMAIN directory
                    THEN directory[record.case_id] ELSE EmptyMap
        fresh == case_meta(Restrict(record, DOMAIN record \ HtmlKeys))
        meta == IF "meta.json" \in DOMAIN case_dir
                THEN fresh @@ case_dir["meta.json"] ELSE fresh
        written == ("ref.html" :> record.ref_html) @@ ("impl.html" :> record.impl_html)
                   @@ ("meta.json" :> meta)
    IN  (record.case_id :> (written @@ case_dir)) @@ directory

\* lines 1462-1468: one iteration of the loop over the cases; mkdir keeps an
\* existing directory and write_text replaces the file
write_case(directory, record) ==
    LET case_dir == IF record.case_id \in DOMAIN directory
                    THEN directory[record.case_id] ELSE EmptyMap
        meta == case_meta(Restrict(record, DOMAIN record \ HtmlKeys))
        written == ("ref.html" :> record.ref_html) @@ ("impl.html" :> record.impl_html)
                   @@ ("meta.json" :> meta)
    IN  (record.case_id :> (written @@ case_dir)) @@ directory

\* the arguments of the add_case calls a run makes: a case of one viewport,
\* a case of two with a per-viewport map, and a case of one viewport that is
\* given a per-viewport map all the same
ScriptedCalls ==
    UNION {{ [case_id |-> id, category |-> <<"layout">>, complexity |-> "high",
              mutations |-> JArr(<<>>), ref_html |-> "ref", impl_html |-> "impl of one",
              viewport |-> BaseVp, viewports |-> JNull, assertions |-> JNull,
              assertions_by_viewport |-> JNull],
             [case_id |-> id, category |-> <<"layout">>, complexity |-> "high",
              mutations |-> JArr(<<>>), ref_html |-> "ref", impl_html |-> "impl of two",
              viewport |-> JNull, viewports |-> JArr(<<DesktopVp, MobileVp>>),
              assertions |-> JNull,
              assertions_by_viewport |->
                 JObj([desktop |-> [pixel_regions_min |-> 0, similarity_max |-> 10000],
                       mobile |-> [similarity_max |-> 9950]])],
             [case_id |-> id, category |-> <<"layout">>, complexity |-> "high",
              mutations |-> JArr(<<>>), ref_html |-> "ref", impl_html |-> "impl keyed",
              viewport |-> BaseVp, viewports |-> JNull, assertions |-> JNull,
              assertions_by_viewport |-> JObj([mobile |-> [similarity_max |-> 9950]])] } :
           id \in 1..MaxIds}

Scripts == ListsUpTo(ScriptedCalls, MaxCases)

\* what an earlier generation left in the directory of a case
StaleFiles(id) ==
    ("ref.html" :> "stale ref") @@ ("impl.html" :> "stale impl")
    @@ ("meta.json" :> [case_id |-> id, notes |-> "stale", schema_version |-> "0.9"])

ExistingDirs == {[id \in D |-> StaleFiles(id)] : D \in SUBSET (1..MaxIds)}

InitPersist ==
    /\ pc = "build"
    /\ call \in Scripts
    /\ derived = JNull
    /\ gen_cases = <<>>
    /\ out_dir \in ExistingDirs
    /\ widx = 0
    /\ runs = 0
    /\ first_out = <<>>
    /\ stream = <<>>
    /\ extracted = JNull
    /\ HarnessIdle
    /\ AssertIdle
    /\ CompareIdle

\* the next add_case call of main()
Build ==
    /\ pc = "build"
    /\ Len(gen_cases) < Len(call)
    /\ LET c == call[Len(gen_cases) + 1]
       IN  gen_cases' = add_case(gen_cases, c.case_id, c.category, c.complexity,
                                 c.mutations, c.ref_html, c.impl_html, c.viewport,
                                 c.viewports, c.assertions, c.assertions_by_viewport)
    /\ UNCHANGED <<pc, stream, extracted, harness_vars, assert_vars, compare_vars, call,
                   derived, out_dir, widx, runs, first_out>>

\* line 1461: the loop over the cases is entered
StartWriting ==
    /\ pc = "build"
    /\ Len(gen_cases) = Len(call)
    /\ pc' = "persist"
    /\ widx' = 1
    /\ UNCHANGED <<stream, extracted, harness_vars, assert_vars, compare_vars, call,
                   derived, gen_cases, out_dir, runs, first_out>>

\* lines 1462-1468: the files of one case are written, the sources popped
WriteCase ==
    /\ pc = "persist"
    /\ widx <= Len(gen_cases)
    /\ out_dir' = write_case(out_dir, gen_cases[widx])
    /\ gen_cases' = [gen_cases EXCEPT ![widx] = Restrict(@, DOMAIN @ \ HtmlKeys)]
    /\ widx' = widx + 1
    /\ UNCHANGED <<pc, stream, extracted, harness_vars, assert_vars, compare_vars, call,
                   derived, runs, first_out>>

\* the loop is over and the generator exits
Finish ==
    /\ pc = "persist"
    /\ widx > Len(gen_cases)
    /\ pc' = "finished"
    /\ runs' = runs + 1
    /\ first_out' = IF runs = 0 THEN out_dir ELSE first_out
    /\ UNCHANGED <<stream, extracted, harness_vars, assert_vars, compare_vars, call,
                   derived, gen_cases, out_dir, widx>>

\* the generator is started again over the directory it left
RunAgain ==
    /\ pc = "finished"
    /\ runs < MaxRuns
    /\ pc' = "build"
    /\ gen_cases' = <<>>
    /\ widx' = 0
    /\ UNCHANGED <<stream, extracted, harness_vars, assert_vars, compare_vars, call,
                   derived, out_dir, runs, first_out>>

NextPersist == Build \/ StartWriting \/ WriteCase \/ Finish \/ RunAgain

SpecPersist == InitPersist /\ [][NextPersist]_vars

-----------------------------------------------------------------------------
(* SpecCompare: run_compare and the evaluation of lines 315-365 applied to  *)
(* one finished comparator process                                          *)

MaxOut == 2

ExitCodes == {0, 1, 2}

OutAlphabet == {LB, RB, WS, TXT, TNum(1)}

\* what a stream can hold: every short text, and the three documents
OutStreams ==
    ListsUpTo(OutAlphabet, MaxOut)
    \cup {CompareDoc \o <<WS>>, <<TXT, WS>> \o ErrorDoc, ModeDoc}

\* the case the comparator ran for, with the viewport name main() has then
CompareSubjects ==
    {[meta |-> MetaSingle(1), viewport_name |-> JNull],
     [meta |-> MetaMulti(1), viewport_name |-> JStr("mobile")]}

\* payload.get on a value that is no dict raises AttributeError; an empty
\* list, a zero or an empty string is stopped before by `if not payload`
Raises(payload) == payload # JNull /\ payload.t # "obj" /\ ~Falsy(payload)

\* lines 306-365 for one finished process: the payload, and either the
\* exception check_assertions raises or what the evaluation adds
CompareOutcome(p) ==
    LET r == run_compare([returncode |-> p.returncode, stdout |-> p.stdout,
                          stderr |-> p.stderr])
    IN  IF Raises(r.payload)
        THEN [payload |-> r.payload, raised |-> TRUE,
              failures |-> <<>>, errors |-> 0, line |-> JNull]
        ELSE LET out == EvaluateViewport(r, p.subject.meta.case_id, p.subject.meta,
                                         p.subject.viewport_name)
             IN  [payload |-> r.payload, raised |-> FALSE,
                  failures |-> out.failures, errors |-> out.errors, line |-> out.line]

InitCompare ==
    /\ pc = "exited"
    /\ proc \in {[returncode |-> c, stdout |-> o, stderr |-> e, subject |-> s] :
                    c \in ExitCodes, o \in OutStreams, e \in OutStreams,
                    s \in CompareSubjects}
    /\ outcome = JNull
    /\ stream = <<>>
    /\ extracted = JNull
    /\ HarnessIdle
    /\ AssertIdle
    /\ GenIdle

Await ==
    /\ pc = "exited"
    /\ outcome' = CompareOutcome(proc)
    /\ pc' = "evaluated"
    /\ UNCHANGED <<stream, extracted, harness_vars, assert_vars, gen_vars, proc>>

NextCompare == Await

SpecCompare == InitCompare /\ [][NextCompare]_vars

-----------------------------------------------------------------------------
(* generate_fixture_images.py: the raster artifacts the renderer writes *)

\* lines 20-28: the explicit list, or the single viewport named "default"
\* unless it has a name; a meta with neither raises ValueError
resolve_viewports(meta) ==
    IF "viewports" \in DOMAIN meta
    THEN [raised |-> FALSE, is_multi |-> TRUE, viewports |-> meta.viewports]
    ELSE IF "viewport" \in DOMAIN meta
    THEN [raised |-> FALSE, is_multi |-> FALSE,
          viewports |-> <<meta.viewport @@ [name |-> "default"]>>]
    ELSE [raised |-> TRUE, is_multi |-> FALSE, viewports |-> <<>>]

\* lines 69-89: the files written for the case of directory `dir`
RenderedArtifacts(dir, meta) ==
    LET case_id == GetOr([o |-> meta], "case_id", dir)
        resolved == resolve_viewports(meta)
        suffix(viewport) ==
            IF resolved.is_multi
            THEN JStr(IF "name" \in DOMAIN viewport THEN viewport.name ELSE "default")
            ELSE JNull
    IN  {FixturePath("fixtures", case_id, role, suffix(resolved.viewports[i]), "png") :
            role \in {"ref", "impl"}, i \in 1..Len(resolved.viewports)}

-----------------------------------------------------------------------------
(* Claims *)

\* a run of log text: no JSON token in it, and not only whitespace
NonJsonText(s) ==
    /\ \A i \in 1..Len(s) : s[i].t \in {"txt", "ws"}
    /\ \E i \in 1..Len(s) : s[i].t = "txt"

\* the stream is log text, then the tokens i..j, then log text, and the
\* tokens i..j are one structured object
ObjectBetweenText(s, i, j) ==
    /\ i <= j
    /\ NonJsonText(SubSeq(s, 1, i - 1))
    /\ NonJsonText(SubSeq(s, j + 1, Len(s)))
    /\ s[i].t = "lb"
    /\ JsonLoads(SubSeq(s, i, j)).ok

\* C1: for a stream made of non-JSON text, one structured object and
\* trailing non-JSON text, extract_json returns that object.
C1_ObjectBetweenLogText ==
    pc = "extracted" =>
        \A i, j \in 1..Len(stream) :
            ObjectBetweenText(stream, i, j) =>
                extracted = JsonLoads(SubSeq(stream, i, j)).v

\* the opening-brace positions whose suffix is one well-formed document
ParsingBraces(s) ==
    {i \in 1..Len(s) : s[i].t = "lb" /\ JsonLoads(SubSeq(s, i, Len(s))).ok}

\* C18: when the whole stream is not one document, extract_json returns
\* the document of the suffix that starts at the last opening brace whose
\* suffix parses, and nothing when no such suffix parses; of two objects in a
\* stream the one returned is the one nearest the end.
C18_LastParsingSuffix ==
    pc = "extracted" /\ ~JsonLoads(stream).ok =>
        LET at == ParsingBraces(stream) IN
        /\ at = {} => extracted = JNull
        /\ at # {} =>
              \E i \in at :
                  /\ \A j \in at : j <= i
                  /\ extracted = JsonLoads(SubSeq(stream, i, Len(stream))).v

\* of the error object and the compare object of a stream that begins with
\* log text, the compare object, which comes last, is returned
C18_Witness ==
    /\ pc = "extracted"
    /\ stream = TwoObjectsStream
    /\ Cardinality(BraceIndices(stream)) = 2
    /\ extracted = JObj([k \in {"mode"} |-> JStr("compare")])

\* the viewport set of a case: the names of its viewports list, or the single
\* implicit default viewport, which has no name
ViewportSet(meta) ==
    IF "viewports" \in DOMAIN meta
    THEN {JStr(meta.viewports[i].name) : i \in 1..Len(meta.viewports)}
    ELSE {JNull}

\* a report line without a viewport field is about the default viewport
RecordViewport(r) == IF "viewport" \in DOMAIN r THEN r.viewport ELSE JNull

RecordsOf(case_id, viewport_name) ==
    {k \in 1..Len(report) :
        report[k].case_id = case_id /\ RecordViewport(report[k]) = viewport_name}

\* C2: at the end of a run every (case, viewport) pair of the evaluated cases
\* has exactly one report record, in raster mode and in source mode.
C2_OneRecordPerPair ==
    pc = "done" =>
        \A i \in 1..Len(cases) :
            \A v \in ViewportSet(dirs[cases[i]].meta) :
                Cardinality(RecordsOf(dirs[cases[i]].meta.case_id, v)) = 1

\* the report lines written after an evaluation
Evaluated == {k \in 1..Len(report) : "assertions" \in DOMAIN report[k]}

\* C3: the assertion map evaluated and recorded for a (case, viewport) pair
\* is exactly the per-viewport map when the viewport's name is a key of
\* assertions_by_viewport (an empty map included), and exactly the case-level
\* map otherwise.
C3_ReplaceNeverMerge ==
    \A k \in Evaluated :
        LET meta == dirs[report[k].case_id].meta
            name == report[k].viewport
            keyed == /\ name # JNull
                     /\ "assertions_by_viewport" \in DOMAIN meta
                     /\ name.s \in DOMAIN meta.assertions_by_viewport
        IN  /\ keyed => report[k].assertions = meta.assertions_by_viewport[name.s]
            /\ ~keyed => report[k].assertions = meta.assertions

\* a run that recorded the empty per-viewport map of "mobile", the non-empty
\* one of "desktop", and a case-level map for a viewport that is no key
C3_Witness ==
    /\ \E k \in Evaluated :
          report[k].viewport = JStr("mobile") /\ report[k].assertions = EmptyMap
    /\ \E k \in Evaluated :
          /\ report[k].viewport = JStr("desktop")
          /\ DOMAIN report[k].assertions = {"pixel_regions_min", "similarity_max"}
          /\ report[k].assertions # dirs[report[k].case_id].meta.assertions
    /\ \E k \in Evaluated :
          /\ report[k].viewport = JNull
          /\ report[k].assertions = dirs[report[k].case_id].meta.assertions

Recorded == failures # <<>> \/ errors # 0

\* C4 as claimed: a default run always ends with status 0, and a strict run
\* ends with status 1 exactly when a failure or an error was recorded.
C4_ExitPolicyAlways ==
    pc = "done" =>
        /\ ~args.strict => exit_status = 0
        /\ args.strict => (exit_status = 1 <=> Recorded)

\* C4, amended: the policy holds of every run that loaded at least one case;
\* a run that finds no case ends with status 1 whatever the mode, with
\* nothing recorded.
C4_ExitPolicy ==
    pc = "done" =>
        /\ cases # <<>> /\ ~args.strict => exit_status = 0
        /\ cases # <<>> /\ args.strict => (exit_status = 1 <=> Recorded)
        /\ cases = <<>> => exit_status = 1 /\ ~Recorded /\ report = <<>>

\* a strict run over two cases ends with status 1 after an error and a
\* failure
C4_Witness ==
    /\ pc = "done"
    /\ args.strict
    /\ Len(cases) = 2
    /\ errors # 0
    /\ Len(failures) > errors
    /\ exit_status = 1

\* the report lines of each condition
MissingSourceLines ==
    {k \in 1..Len(report) : report[k].status = "error" /\ "viewport" \notin DOMAIN report[k]}

NoPayloadLines ==
    {k \in 1..Len(report) : report[k].status = "error" /\ "viewport" \in DOMAIN report[k]}

ErrorPayloadLines ==
    {k \in Evaluated : Get(report[k].result, "mode") = JStr("error")}

UnexpectedModeLines ==
    {k \in Evaluated : Get(report[k].result, "mode") \notin {JStr("error"), JStr("compare")}}

ViolationLines ==
    {k \in Evaluated : /\ Get(report[k].result, "mode") = JStr("compare")
                       /\ report[k].failures # <<>>}

ConditionLines ==
    MissingSourceLines \cup NoPayloadLines \cup ErrorPayloadLines
    \cup UnexpectedModeLines \cup ViolationLines

\* the (case, viewport) pairs main() iterates over for a case
LoopPairs(d) ==
    IF args.use_html /\ ~dirs[d].src_ok THEN 1
    ELSE IF ~args.use_html THEN 1
    ELSE IF "viewports" \in DOMAIN dirs[d].meta THEN Len(dirs[d].meta.viewports)
    ELSE 1

RECURSIVE SumPairs(_)
SumPairs(n) == IF n = 0 THEN 0 ELSE SumPairs(n - 1) + LoopPairs(cases[n])

\* C5: none of MissingSource, NoPayload, ErrorPayload, UnexpectedMode and
\* AssertionViolation aborts the run: the run is never stuck before its
\* summary, and a run in which one of them occurred ends only after every
\* loaded case was gone through to its last viewport, with a nonzero status
\* only if it is strict and something was recorded.
C5_ConditionsNeverAbort ==
    /\ pc # "done" => ENABLED Next
    /\ pc = "done" /\ ConditionLines # {} =>
          /\ idx = Len(cases) + 1
          /\ Len(report) = SumPairs(Len(cases))
          /\ exit_status # 0 => args.strict /\ Recorded

\* a finished default run whose first report line is an error, followed by a
\* failed comparison and one more line
C5_Witness ==
    /\ pc = "done"
    /\ exit_status = 0
    /\ Len(report) >= 3
    /\ report[1].status = "error"
    /\ \E k \in 2..Len(report) : k \in ErrorPayloadLines \cup UnexpectedModeLines
    /\ \E k \in 2..Len(report) : k \in ViolationLines \cup NoPayloadLines

\* C6: the error counter counts exactly the MissingSource and NoPayload
\* conditions, each of which wrote a report line of status "error" that
\* describes it and carries no payload; an error payload, an unexpected mode
\* and an assertion violation are written with status "fail" and their
\* payload, and leave the error counter alone.
C6_ErrorsApartFromFailures ==
    /\ errors = Cardinality(MissingSourceLines \cup NoPayloadLines)
    /\ \A k \in 1..Len(report) :
          /\ report[k].status = "error" <=> "result" \notin DOMAIN report[k]
          /\ report[k].status = "error" => "error" \in DOMAIN report[k]
    /\ \A k \in ErrorPayloadLines \cup UnexpectedModeLines \cup ViolationLines :
          /\ report[k].status = "fail"
          /\ report[k].result # JNull
    /\ \A k \in ErrorPayloadLines \cup UnexpectedModeLines : Len(report[k].failures) = 1

\* a run that met a missing source, an absent payload and an error payload
C6_Witness ==
    /\ MissingSourceLines # {}
    /\ NoPayloadLines # {}
    /\ ErrorPayloadLines # {}
    /\ errors = 2
    /\ Len(failures) = 3

\* a report line written for a (case, viewport) pair after its comparison
IsPairLine(line) == "viewport" \in DOMAIN line

PairLines == SelectSeq(report, IsPairLine)

\* the comparisons main() makes for a case: none when its sources are
\* missing, else one per viewport of the list it iterates
Comparisons(d) == IF args.use_html /\ ~dirs[d].src_ok THEN 0 ELSE LoopPairs(d)

RECURSIVE SumComparisons(_)
SumComparisons(n) == IF n = 0 THEN 0 ELSE SumComparisons(n - 1) + Comparisons(cases[n])

\* C20: the harness is strictly sequential: at most one comparator process
\* is in flight, and only while main() waits for it; every comparator
\* spawned before it has been awaited and its pair's report line written, in
\* the order of the spawns; and a finished run has spawned exactly one
\* comparator per pair it evaluated.
C20_StrictlySequential ==
    /\ Len(inflight) <= 1
    /\ inflight # <<>> <=> pc = "await"
    /\ Len(invocations) = Len(PairLines) + Len(inflight)
    /\ \A k \in 1..Len(PairLines) : invocations[k].ref.dir = PairLines[k].case_id
    /\ inflight # <<>> => inflight[1] = invocations[Len(invocations)]
    /\ pc = "done" => Len(invocations) = SumComparisons(Len(cases))

\* the third comparator of a run is in flight after the lines of the first
\* two pairs, of two viewports of one case, were written
C20_Witness ==
    /\ pc = "await"
    /\ Len(inflight) = 1
    /\ Len(invocations) = 3
    /\ Len(PairLines) = 2
    /\ PairLines[1].case_id = PairLines[2].case_id
    /\ PairLines[1].viewport # PairLines[2].viewport

\* the (case, viewport) a report line is about
LineKey(line) == <<line.case_id, RecordViewport(line)>>

\* the k-th case directory in the order of the directory names
NthDir(k) == CHOOSE d \in DOMAIN dirs : Cardinality({e \in DOMAIN dirs : e < d}) = k - 1

\* the report lines a case gives rise to, in order: one per viewport of its
\* declared list where main() iterates that list, else a single line
DeclaredOrder(d) ==
    IF args.use_html /\ dirs[d].src_ok /\ "viewports" \in DOMAIN dirs[d].meta
    THEN [i \in 1..Len(dirs[d].meta.viewports) |->
            <<dirs[d].meta.case_id, JStr(dirs[d].meta.viewports[i].name)>>]
    ELSE << <<dirs[d].meta.case_id, JNull>> >>

RECURSIVE ExpectedOrder(_)
ExpectedOrder(k) ==
    IF k = 0 THEN <<>> ELSE ExpectedOrder(k - 1) \o DeclaredOrder(NthDir(k))

IsPrefix(s, t) == Len(s) <= Len(t) /\ s = SubSeq(t, 1, Len(s))

\* the report lines so far follow the directories in name order and, within
\* a case, the viewports in list order; so do the comparator invocations
ReportInOrder ==
    /\ IsPrefix([k \in 1..Len(report) |-> LineKey(report[k])],
                ExpectedOrder(Cardinality(DOMAIN dirs)))
    /\ \A i, j \in 1..Len(invocations) :
          i < j => invocations[i].ref.dir <= invocations[j].ref.dir

\* a step appends to the report or leaves it alone
ReportAppendOnly == IsPrefix(report, report')

\* C21: the cases are evaluated in the order of their directory names and,
\* within a case, the viewports in the order of the declared list; the
\* report lines are appended in exactly that order, and a line once written
\* is never rewritten or removed.
C21_OrderedAppendOnly == []ReportInOrder /\ [][ReportAppendOnly]_vars

\* a finished source-mode run wrote "desktop" then "mobile" of the first
\* directory, then a line of the second
C21_Witness ==
    /\ pc = "done"
    /\ Len(report) >= 3
    /\ LineKey(report[1]) = <<1, JStr("desktop")>>
    /\ LineKey(report[2]) = <<1, JStr("mobile")>>
    /\ report[3].case_id = 2

\* the files the comparators of a run were asked to read
FilesRead == UNION {{invocations[k].ref, invocations[k].impl} : k \in 1..Len(invocations)}

\* C22: in raster mode every file the harness hands to the comparator is one
\* the renderer writes for that case, the un-suffixed ref.png / impl.png
\* being used exactly for a case with the single implicit viewport, and a
\* finished run has compared the artifacts of every viewport of every case
\* it evaluated.
C22_RasterNamingConvention ==
    ~args.use_html =>
        /\ \A k \in 1..Len(invocations) :
              LET meta == dirs[invocations[k].ref.dir].meta
                  written == RenderedArtifacts(invocations[k].ref.dir, meta)
              IN  /\ invocations[k].ref \in written
                  /\ invocations[k].impl \in written
                  /\ invocations[k].ref.role = "ref"
                  /\ invocations[k].impl.role = "impl"
                  /\ invocations[k].ref.suffix = invocations[k].impl.suffix
                  /\ invocations[k].ref.suffix = JNull <=> "viewports" \notin DOMAIN meta
        /\ pc = "done" =>
              \A i \in 1..Len(cases) :
                  RenderedArtifacts(cases[i], dirs[cases[i]].meta) \subseteq FilesRead

\* the error counter never exceeds the number of messages; a finished run
\* has printed the number of messages as its "Failures" count, and a strict
\* one that counted an error has a nonzero status
ErrorsAreFailures ==
    /\ errors <= Len(failures)
    /\ pc = "done" /\ cases # <<>> =>
          /\ summary_out[2] = [kind |-> "failures", n |-> Len(failures)]
          /\ summary_out[3] = [kind |-> "errors", n |-> errors]
          /\ summary_out[2].n >= summary_out[3].n
    /\ pc = "done" /\ args.strict /\ errors # 0 => exit_status # 0

\* a step that counts an error counts one, and adds one message
ErrorAddsMessage ==
    errors' # errors => errors' = errors + 1 /\ Len(failures') = Len(failures) + 1

\* C27: at every point of a run the error counter is at most the number of
\* accumulated failure messages, a MissingSource or NoPayload condition
\* adding exactly one message along with its increment of the counter; the
\* final "Failures" count includes every error, and a strict run whose error
\* counter is nonzero exits nonzero.
C27_ErrorsCountedAsFailures == []ErrorsAreFailures /\ [][ErrorAddsMessage]_vars

\* a strict run ended with status 1 on two errors, a missing source and an
\* absent payload, and nothing else
C27_Witness ==
    /\ pc = "done"
    /\ args.strict
    /\ errors = 2
    /\ Len(failures) = 2
    /\ MissingSourceLines # {}
    /\ NoPayloadLines # {}
    /\ exit_status = 1
    /\ summary_out[2].n = 2

\* the messages held by the first n report lines
RECURSIVE SumRecordFailures(_)
SumRecordFailures(n) ==
    IF n = 0 THEN 0
    ELSE SumRecordFailures(n - 1)
         + (IF "failures" \in DOMAIN report[n] THEN Len(report[n].failures) ELSE 0)

ErrorLines == {k \in 1..Len(report) : report[k].status = "error"}

\* C28: every report line has one of the statuses ok, fail and error; a line
\* written after an evaluation has status "ok" if and only if its failures
\* list is empty and "fail" otherwise; and at the end of the run the number
\* of accumulated failure messages is the sum of the lengths of the failures
\* lists of all lines plus the number of lines of status "error".
C28_ReportMatchesCounters ==
    /\ \A k \in 1..Len(report) : report[k].status \in {"ok", "fail", "error"}
    /\ \A k \in Evaluated :
          /\ report[k].status = "ok" <=> report[k].failures = <<>>
          /\ report[k].status = "fail" <=> report[k].failures # <<>>
    /\ pc = "done" =>
          Len(failures) = SumRecordFailures(Len(report)) + Cardinality(ErrorLines)

\* a finished run wrote a line of each status
C28_Witness ==
    /\ pc = "done"
    /\ \E k \in Evaluated : report[k].status = "ok"
    /\ \E k \in Evaluated : report[k].status = "fail" /\ Len(report[k].failures) = 1
    /\ ErrorLines # {}
    /\ Len(failures) = 2
    /\ Len(report) = 3

\* the number of cases a run is to evaluate: the first N of them under a
\* limit N, all of them without one
LimitedCount ==
    LET total == Cardinality(DOMAIN dirs)
    IN  IF args.limit = JNull THEN total
        ELSE IF args.limit.n < total THEN args.limit.n ELSE total

\* C29: under a limit N >= 0 the harness evaluates exactly the first
\* min(N, total) cases in the order of their directory names, and no other
\* case; without a limit it evaluates all of them.
C29_LimitTakesFirstCases ==
    /\ pc # "start" => cases = [k \in 1..LimitedCount |-> NthDir(k)]
    /\ \A k \in 1..Len(report) : \E n \in 1..LimitedCount : report[k].case_id = NthDir(n)
    /\ pc = "done" /\ LimitedCount > 0 =>
          \A n \in 1..LimitedCount : \E k \in 1..Len(report) : report[k].case_id = NthDir(n)

-----------------------------------------------------------------------------
(* Claims about the console summary, under SpecSummary *)

IsItem(line) == line.kind = "item"

IsNotice(line) == line.kind = "more"

\* the messages the summary lists, in the order printed
Listed ==
    LET items == SelectSeq(summary_out, IsItem) IN [k \in 1..Len(items) |-> items[k].failure]

\* the report has a line for the message: a line of the message's case that
\* holds it, or the error line of that case
InReport(message) ==
    \E k \in 1..Len(report) :
        /\ report[k].case_id = message.who.id
        /\ \/ report[k].status = "error"
           \/ \E i \in 1..Len(report[k].failures) : report[k].failures[i] = message

SummaryBounded ==
    pc = "done" =>
        /\ SubSeq(summary_out, 1, 3) =
              <<[kind |-> "total", n |-> Len(cases)], [kind |-> "failures", n |-> Len(failures)],
                [kind |-> "errors", n |-> errors]>>
        /\ Listed = SubSeq(failures, 1, IF Len(failures) < 50 THEN Len(failures) ELSE 50)
        /\ \A k \in 1..Len(summary_out) : IsItem(summary_out[k]) => k > 4
        /\ Len(SelectSeq(summary_out, IsNotice)) = (IF Len(failures) > 50 THEN 1 ELSE 0)
        /\ Len(failures) > 50 =>
              summary_out[Len(summary_out)] = [kind |-> "more", n |-> Len(failures) - 50]
        /\ \A k \in 1..Len(failures) : InReport(failures[k])

\* C25: the console summary gives the final counts and the first 50
\* accumulated messages in the order they were recorded, followed by a notice
\* of the number of remaining messages exactly when there are more than 50;
\* printing it leaves the report as it was, with a line for every message.
C25_SummaryBounded == []SummaryBounded /\ [][pc' = "done" => report' = report]_vars

\* a run that recorded 51 messages has printed 50 of them and the notice
C25_Witness ==
    /\ pc = "done"
    /\ Len(failures) = 51
    /\ Len(Listed) = 50
    /\ summary_out[Len(summary_out)] = [kind |-> "more", n |-> 1]
    /\ Len(report) = 51

-----------------------------------------------------------------------------
(* Claims about check_assertions, under SpecAssert *)

Checked == pc = "checked"

IsObject(v) == v.t = "obj"

\* the failures of the verdict that are about one assertion key
FailuresOn(key) == {k \in 1..Len(verdict) : verdict[k].kind = key}

\* C7: a payload of mode "error" gets exactly one failure, which carries the
\* reported error message ("unknown error" when none is reported), whatever
\* the assertion map and the metrics of the payload.
C7_ErrorPayloadOneFailure ==
    Checked /\ IsObject(subject.payload)
            /\ Get(subject.payload, "mode") = JStr("error") =>
        /\ Len(verdict) = 1
        /\ verdict[1].kind = "error payload"
        /\ LET err == Get(subject.payload, "error") IN
           verdict[1].detail.msg =
               IF IsObject(err) /\ "message" \in DOMAIN err.o
               THEN err.o.message ELSE JStr("unknown error")

\* an error payload with a message and metrics that break every threshold
\* of the full assertion map
C7_Witness ==
    /\ Checked
    /\ IsObject(subject.payload)
    /\ Get(subject.payload, "mode") = JStr("error")
    /\ Get(subject.payload, "metrics") = BadMetrics
    /\ subject.assertions = DerivedThresholds
    /\ Len(verdict) = 1
    /\ verdict[1].detail.msg = JStr("boom")

\* C8: a present payload whose mode is neither "compare" nor "error", a
\* payload without a mode field included, gets exactly one failure, which
\* reports the unexpected mode.
C8_UnexpectedModeOneFailure ==
    Checked /\ IsObject(subject.payload)
            /\ Get(subject.payload, "mode") \notin {JStr("compare"), JStr("error")} =>
        /\ Len(verdict) = 1
        /\ verdict[1].kind = "unexpected mode"
        /\ verdict[1].detail.mode = Get(subject.payload, "mode")

\* the fixed source path of each assertion key
SourcePath(key) ==
    CASE key = "pixel_regions_min" -> <<"metrics", "pixel", "diffRegions">>
      [] key = "color_diffs_min" -> <<"metrics", "color", "diffs">>
      [] key = "similarity_max" -> <<"similarity">>
      [] key = "color_score_max" -> <<"metrics", "color", "score">>
      [] key = "typography_score_max" -> <<"metrics", "typography", "score">>
      [] key = "layout_score_max" -> <<"metrics", "layout", "score">>
      [] key = "content_score_max" -> <<"metrics", "content", "score">>

\* the value at a path of the payload, null when a step of it is missing
RECURSIVE Lookup(_, _)
Lookup(v, path) ==
    IF path = <<>> THEN v
    ELSE IF IsObject(v) /\ Head(path) \in DOMAIN v.o THEN Lookup(v.o[Head(path)], Tail(path))
    ELSE JNull

Observed(key) == Lookup(subject.payload, SourcePath(key))

IsMinKey(key) == key \in {"pixel_regions_min", "color_diffs_min"}

\* the threshold of the key is violated by the value observed
Violated(key) ==
    IF IsMinKey(key) THEN Len(Observed(key).a) < subject.assertions[key]
    ELSE Observed(key).n > subject.assertions[key]

ComparePayload ==
    IsObject(subject.payload) /\ Get(subject.payload, "mode") = JStr("compare")

\* C9: for a compare payload, a key whose value is observed fails exactly
\* when the value is strictly on the wrong side of the threshold, so never
\* when it equals the threshold; the failure quotes both values.
C9_StrictThresholds ==
    Checked /\ ComparePayload =>
        \A key \in DOMAIN subject.assertions :
            Observed(key) # JNull =>
                /\ Cardinality(FailuresOn(key)) = (IF Violated(key) THEN 1 ELSE 0)
                /\ \A k \in FailuresOn(key) :
                      verdict[k].detail.required = subject.assertions[key]

\* pixel_regions_min 1 passes for one region while similarity 0.9951 fails
\* similarity_max 0.995 and 0.995 would not
C9_Witness ==
    /\ Checked
    /\ ComparePayload
    /\ DOMAIN subject.assertions = {"pixel_regions_min", "similarity_max"}
    /\ subject.assertions["pixel_regions_min"] = 1
    /\ Observed("pixel_regions_min") = JArr(<<Region>>)
    /\ Observed("similarity_max") = JNum(9951)
    /\ subject.assertions["similarity_max"] = 9950
    /\ FailuresOn("pixel_regions_min") = {}
    /\ FailuresOn("similarity_max") = {1}

\* the keys of the effective map whose threshold the payload violates
ViolatedKeys ==
    {key \in DOMAIN subject.assertions : Observed(key) # JNull /\ Violated(key)}

\* C11: for a compare payload the failure list has exactly one entry per
\* assertion key of the effective map whose threshold is violated, and no
\* other entry: a violated key never suppresses the check of another key.
C11_KeysCheckedIndependently ==
    Checked /\ ComparePayload =>
        /\ \A key \in ViolatedKeys : Cardinality(FailuresOn(key)) = 1
        /\ Len(verdict) = Cardinality(ViolatedKeys)
        /\ \A k \in 1..Len(verdict) : verdict[k].kind \in ViolatedKeys

\* a full assertion map against a payload that breaks all seven thresholds
C11_Witness ==
    /\ Checked
    /\ ComparePayload
    /\ DOMAIN subject.assertions = AssertionKeys
    /\ ViolatedKeys = AssertionKeys
    /\ Len(verdict) = 7

\* a value that is there but is zero, or a list that is there but is empty
ZeroOrEmpty(v) == v = JNum(0) \/ v = JArr(<<>>)

\* C10: for a compare payload, a key whose source value is absent (no
\* metrics, no metric group, or no such field) contributes no failure; a
\* value that is zero or an empty list is checked like any other.
C10_AbsentSkippedZeroChecked ==
    Checked /\ ComparePayload =>
        \A key \in DOMAIN subject.assertions :
            /\ Observed(key) = JNull => FailuresOn(key) = {}
            /\ ZeroOrEmpty(Observed(key)) => (FailuresOn(key) # {} <=> Violated(key))

\* an empty diffRegions list fails pixel_regions_min while the missing
\* color group is skipped for color_diffs_min
C10_Witness ==
    /\ Checked
    /\ ComparePayload
    /\ DOMAIN subject.assertions = {"pixel_regions_min", "color_diffs_min"}
    /\ Observed("pixel_regions_min") = JArr(<<>>)
    /\ Lookup(subject.payload, <<"metrics", "color">>) = JNull
    /\ Lookup(subject.payload, <<"metrics">>) # JNull
    /\ Cardinality(FailuresOn("pixel_regions_min")) = 1
    /\ FailuresOn("color_diffs_min") = {}

-----------------------------------------------------------------------------
(* Claims about the generator, under SpecGenerate *)

Derived == pc \in {"derived", "added"}

\* the derivation functions have just returned
JustDerived == pc = "derived"

Added == pc = "added"

\* the record the add_case call appended
NewCase == gen_cases[Len(gen_cases)]

\* C12: whenever the caller supplies an assertions map to add_case, an
\* empty map included, the case's assertions field is exactly that map;
\* the derived defaults are used only when no map was supplied.
C12_ExplicitAssertionsWin ==
    Added =>
        LET supplied == call.given.assertions IN
        /\ supplied # JNull => NewCase.assertions = supplied.o
        /\ supplied = JNull => NewCase.assertions = derived.assertions

\* the map holds exactly the entry key -> value when the test holds, and has
\* no such key when it does not
FiresIff(map, test, key, value) ==
    /\ test => key \in DOMAIN map /\ map[key] = value
    /\ ~test => key \notin DOMAIN map

\* C13: default_assertions is the union of independently fired rules:
\* pixel_regions_min = 1 iff the category contains layout, spacing or icon;
\* color_diffs_min = 1 and color_score_max = 0.9995 iff it contains color;
\* content_score_max = 0.95 iff it contains copy; similarity_max = 0.995 iff
\* the complexity is high; no rule removes or changes another rule's entry.
C13_RulesFireIndependently ==
    Derived =>
        LET map == derived.assertions
            tags == {call.category[i] : i \in 1..Len(call.category)}
        IN  /\ FiresIff(map, tags \cap {"layout", "spacing", "icon"} # {},
                        "pixel_regions_min", 1)
            /\ FiresIff(map, "color" \in tags, "color_diffs_min", 1)
            /\ FiresIff(map, "color" \in tags, "color_score_max", 9995)
            /\ FiresIff(map, "copy" \in tags, "content_score_max", 9500)
            /\ FiresIff(map, call.complexity = "high", "similarity_max", 9950)
            /\ DOMAIN map \subseteq AssertionKeys \ {"layout_score_max"}

\* a high-complexity case of categories color and copy: four entries at once
C13_Witness ==
    /\ Derived
    /\ call.category = <<"color", "copy">>
    /\ call.complexity = "high"
    /\ call.mutations = JArr(<<>>)
    /\ derived.assertions =
          [color_diffs_min |-> 1, color_score_max |-> 9995,
           content_score_max |-> 9500, similarity_max |-> 9950]

\* some mutation of the call changes a typography property
ChangesTypography ==
    /\ call.mutations # JNull
    /\ \E i \in 1..Len(call.mutations.a) :
          LET m == call.mutations.a[i] IN
          /\ "property" \in DOMAIN m
          /\ m.property \in {"font-size", "font-weight", "line-height",
                             "letter-spacing", "font-family"}

\* C14: typography_score_max is added if and only if the category contains
\* typography, some mutation changes a typography property and the maximum
\* delta level is not none; its value is 0.9999, 0.999, 0.995 or 0.99 for the
\* level tiny, small, medium or large.
C14_TypographyThreshold ==
    Derived =>
        LET map == derived.assertions
            level == derived.delta_level
        IN  /\ "typography_score_max" \in DOMAIN map <=>
                  /\ InList("typography", call.category)
                  /\ ChangesTypography
                  /\ level # JNull
            /\ "typography_score_max" \in DOMAIN map =>
                  map["typography_score_max"] =
                      CASE level.n = 0 -> 9999
                        [] level.n = 1 -> 9990
                        [] level.n = 2 -> 9950
                        [] level.n = 3 -> 9900

\* a typography case whose one mutation changes line-height by a medium
\* delta
C14_Witness ==
    /\ Derived
    /\ call.category = <<"typography">>
    /\ call.mutations = JArr(<<[property |-> "line-height", delta |-> "medium"]>>)
    /\ derived.assertions = [typography_score_max |-> 9950]

LevelNames == {"tiny", "small", "medium", "large"}

\* tiny < small < medium < large
Ordinal(name) ==
    CASE name = "tiny" -> 0
      [] name = "small" -> 1
      [] name = "medium" -> 2
      [] name = "large" -> 3

\* the ordinal of a mutation's delta, -1 when it has no recognized delta
OrdinalOf(m) ==
    IF "delta" \in DOMAIN m /\ m.delta \in LevelNames THEN Ordinal(m.delta) ELSE -1

\* a level as returned, -1 for none
Rank(level) == IF level = JNull THEN -1 ELSE level.n

\* the list with the delta of the mutation at one position replaced
WithDelta(list, at, name) == [list EXCEPT ![at] = [delta |-> name] @@ list[at]]

\* C15: max_delta_level returns the highest ordinal level among the
\* recognized deltas of the list; it is none if and only if the list is
\* empty (or absent) or no mutation has a recognized delta; and replacing one
\* mutation's delta by a higher level never decreases the result.
C15_MaxDeltaLevel ==
    JustDerived =>
        LET list == IF call.mutations = JNull THEN <<>> ELSE call.mutations.a
            ordinals == {OrdinalOf(list[i]) : i \in 1..Len(list)} \ {-1}
            level == derived.delta_level
        IN  /\ level = JNull <=> ordinals = {}
            /\ level # JNull =>
                  /\ level.n \in ordinals
                  /\ \A o \in ordinals : o <= level.n
            /\ \A i \in 1..Len(list) :
                  \A name \in LevelNames :
                      Ordinal(name) > OrdinalOf(list[i]) =>
                          Rank(max_delta_level(JArr(WithDelta(list, i, name))))
                              >= Rank(level)

\* a tiny delta followed by a large one gives large
C15_Witness ==
    /\ Derived
    /\ call.mutations # JNull
    /\ Len(call.mutations.a) = 2
    /\ OrdinalOf(call.mutations.a[1]) = 0
    /\ OrdinalOf(call.mutations.a[2]) = 3
    /\ derived.delta_level = JNum(3)

\* the orderings of a list
Reorderings(list) ==
    {[i \in 1..Len(list) |-> list[p[i]]] : p \in Permutations(1..Len(list))}

MutationReorderings ==
    IF call.mutations = JNull THEN {JNull}
    ELSE {JArr(l) : l \in Reorderings(call.mutations.a)}

\* C16: default_assertions gives the same map for every ordering of the
\* category list and of the mutation list, and a repeated call on the same
\* arguments (the one add_case makes when no assertions are supplied) gives
\* the same map again, the arguments being left as they were.
C16_OrderIndependent ==
    /\ JustDerived =>
          \A c \in Reorderings(call.category) :
              \A m \in MutationReorderings :
                  default_assertions(c, call.complexity, m) = derived.assertions
    /\ Added /\ call.given.assertions = JNull =>
          /\ NewCase.assertions = derived.assertions
          /\ NewCase.category = call.category
          /\ NewCase.mutations = call.mutations

\* a case of two categories and two typography mutations of different
\* deltas, derived a second time by add_case
C16_Witness ==
    /\ Added
    /\ call.given.assertions = JNull
    /\ call.category = <<"color", "typography">>
    /\ call.mutations # JNull
    /\ Len(call.mutations.a) = 2
    /\ OrdinalOf(call.mutations.a[1]) = 0
    /\ OrdinalOf(call.mutations.a[2]) = 2
    /\ ChangesTypography
    /\ derived.assertions =
          [color_diffs_min |-> 1, color_score_max |-> 9995,
           typography_score_max |-> 9950]

\* the mutations of the call
CallMutations == IF call.mutations = JNull THEN <<>> ELSE call.mutations.a

\* the highest ordinal among the deltas of all mutations of the call,
\* whatever property they change; -1 when none is recognized
OverallOrdinal ==
    LET ordinals == {OrdinalOf(CallMutations[i]) : i \in 1..Len(CallMutations)} \cup {-1}
    IN  CHOOSE o \in ordinals : \A other \in ordinals : other <= o

HasThreshold(map) == "typography_score_max" \in DOMAIN map

\* a mutation of a property that is no typography property, by a large delta
LargeElsewhere(m) ==
    /\ "property" \in DOMAIN m
    /\ m.property \notin {"font-size", "font-weight", "line-height",
                          "letter-spacing", "font-family"}
    /\ "delta" \in DOMAIN m
    /\ m.delta = "large"

\* C30: the typography threshold is the one of the maximum delta over all
\* mutations of the case, those of non-typography properties included;
\* raising the delta of any one mutation never raises the threshold; and a
\* typography case with a typography mutation of any delta and a
\* non-typography mutation of delta large gets typography_score_max = 0.99.
C30_ThresholdOfOverallMax ==
    JustDerived =>
        LET map == derived.assertions IN
        /\ HasThreshold(map) =>
              /\ OverallOrdinal >= 0
              /\ map["typography_score_max"] = <<9999, 9990, 9950, 9900>>[OverallOrdinal + 1]
        /\ \A i \in 1..Len(CallMutations) :
              \A name \in LevelNames :
                  LET raised == default_assertions(call.category, call.complexity,
                                                   JArr(WithDelta(CallMutations, i, name)))
                  IN  /\ Ordinal(name) > OrdinalOf(CallMutations[i])
                      /\ HasThreshold(map)
                      /\ HasThreshold(raised)
                      => raised["typography_score_max"] <= map["typography_score_max"]
        /\ /\ InList("typography", call.category)
           /\ ChangesTypography
           /\ \E i \in 1..Len(CallMutations) : LargeElsewhere(CallMutations[i])
           => HasThreshold(map) /\ map["typography_score_max"] = 9900

\* a typography case whose font-size changes by a tiny delta and whose
\* background changes by a large one gets 0.99
C30_Witness ==
    /\ Derived
    /\ call.category = <<"typography">>
    /\ call.mutations = JArr(<<[property |-> "font-size", delta |-> "tiny"],
                               [property |-> "background", delta |-> "large"]>>)
    /\ derived.assertions = [typography_score_max |-> 9900]

-----------------------------------------------------------------------------
(* Claims about the persisted cases, under SpecPersist *)

Finished == pc = "finished"

\* the last record of the generated list that has the case_id of record k
LastOf(k) ==
    CHOOSE j \in k..Len(gen_cases) :
        /\ gen_cases[j].case_id = gen_cases[k].case_id
        /\ \A i \in (j + 1)..Len(gen_cases) : gen_cases[i].case_id # gen_cases[k].case_id

\* the directory of record k holds the sources of the call that made the
\* record and a metadata document of the record's fields and the two fixed
\* ones, and of nothing else
HoldsExactly(k) ==
    LET record == gen_cases[k]
        files == out_dir[record.case_id]
        meta == files["meta.json"]
    IN  /\ files["ref.html"] = call[k].ref_html
        /\ files["impl.html"] = call[k].impl_html
        /\ DOMAIN meta = (DOMAIN record \cup {"schema_version", "assets"}) \ HtmlKeys
        /\ \A key \in DOMAIN record \ HtmlKeys : meta[key] = record[key]
        /\ meta.schema_version = "1.0"

\* C23: after a generation over an existing output directory, the directory
\* of every generated case_id holds the reference source, the implementation
\* source and the metadata document of the new generation and nothing of the
\* earlier content of these files; and a second run of the generation leaves
\* the output directory as the first run left it.
C23_RegenerationIdempotent ==
    Finished =>
        /\ \A k \in 1..Len(gen_cases) :
              /\ gen_cases[k].case_id \in DOMAIN out_dir
              /\ HoldsExactly(LastOf(k))
        /\ runs >= 2 => out_dir = first_out

\* the second run has ended: the directory of case 1, stale before, holds the
\* new generation, and the stale directory of case 2, not generated, is as it
\* was
C23_Witness ==
    /\ Finished
    /\ runs = 2
    /\ Len(gen_cases) = 1
    /\ gen_cases[1].case_id = 1
    /\ DOMAIN out_dir = {1, 2}
    /\ "notes" \notin DOMAIN out_dir[1]["meta.json"]
    /\ out_dir[2] = StaleFiles(2)

\* C24: whatever add_case calls were made, no two records of the case list
\* share a case_id, and every key of a record's assertions_by_viewport is
\* the name of a viewport of the record's viewports list.
C24_DataModelInvariants ==
    /\ \A i, j \in 1..Len(gen_cases) :
          i # j => gen_cases[i].case_id # gen_cases[j].case_id
    /\ \A i \in 1..Len(gen_cases) :
          "assertions_by_viewport" \in DOMAIN gen_cases[i] =>
              /\ "viewports" \in DOMAIN gen_cases[i]
              /\ DOMAIN gen_cases[i].assertions_by_viewport \subseteq
                    {gen_cases[i].viewports[n].name : n \in 1..Len(gen_cases[i].viewports)}

-----------------------------------------------------------------------------
(* Claims about run_compare, under SpecCompare *)

Evaluated1 == pc = "evaluated"

\* what each stream of the process yields by itself
StdoutYields == extract_json(Strip(proc.stdout))

StderrYields == extract_json(Strip(proc.stderr))

\* C17: run_compare takes the payload from standard output whenever that
\* yields a document, whatever standard error holds; it takes it from
\* standard error only when standard output yields nothing; the payload is
\* absent exactly when neither stream yields a document.
C17_StdoutBeforeStderr ==
    Evaluated1 =>
        /\ StdoutYields # JNull => outcome.payload = StdoutYields
        /\ StdoutYields = JNull => outcome.payload = StderrYields
        /\ outcome.payload = JNull <=> (StdoutYields = JNull /\ StderrYields = JNull)

\* both streams hold a document, and the one of standard output is taken
C17_Witness ==
    /\ Evaluated1
    /\ StdoutYields # JNull
    /\ StderrYields # JNull
    /\ IsObject(StdoutYields)
    /\ IsObject(StderrYields)
    /\ Get(StdoutYields, "mode") = JStr("compare")
    /\ Get(StderrYields, "mode") = JStr("error")
    /\ outcome.payload = StdoutYields

\* C19: when a payload is present the exit code of the comparator does not
\* influence the outcome: the same streams with any other exit code give the
\* same payload, the same failures, the same report line and the same
\* counter updates.
C19_ExitCodeIgnored ==
    Evaluated1 /\ outcome.payload # JNull =>
        \A code \in ExitCodes :
            CompareOutcome([proc EXCEPT !.returncode = code]) = outcome

\* a comparator that exited nonzero after printing a compare payload, which
\* is evaluated and passes
C19_Witness ==
    /\ Evaluated1
    /\ proc.returncode # 0
    /\ ~outcome.raised
    /\ IsObject(outcome.payload)
    /\ Get(outcome.payload, "mode") = JStr("compare")
    /\ outcome.line.status = "ok"
    /\ outcome.errors = 0

\* C26: what extract_json hands to the evaluator is absent or a JSON
\* object, never a scalar, a string or an array, and check_assertions reads
\* the payload's fields without raising.
C26_PayloadAbsentOrObject ==
    Evaluated1 =>
        /\ outcome.payload = JNull \/ IsObject(outcome.payload)
        /\ ~outcome.raised

====
